---- MODULE Spec2Model ----
(***************************************************************************)
(* Video remix task machine of jingchen0529/voice-synthesis.                *)
(*                                                                         *)
(* The model covers the task-creation endpoint (create_video_task), its    *)
(* background worker (process_video), the queue worker                     *)
(* (run_video_synthesis), the render pipeline they both call               *)
(* (create_video_from_config) as far as its progress reports, its media    *)
(* resources and its exceptions go, and the status query                   *)
(* (get_task_status, build_task_status_response, to_dict).                 *)
(*                                                                         *)
(* Real numbers of the source are kept in tenths (0.3 s is 3, 2.0 is 20).  *)
(* An Optional value is a tuple: None is <<>>, a value x is <<x>>.         *)
(***************************************************************************)
EXTENDS Integers, Sequences, FiniteSets, TLC

\* ------------------------------------------------------------------------
\* Bounds of the model
\* ------------------------------------------------------------------------

\* worker runs (background threads plus queue deliveries) that may be started
MaxRuns == 2

\* largest number of clips (num_clips) a render composes
MaxClips == 1

\* ------------------------------------------------------------------------
\* Configuration tables (video_service.py, lines 23-162)
\* ------------------------------------------------------------------------

VIDEO_RESOLUTIONS == {"480p", "720p", "1080p", "2k", "4k"}

VIDEO_LAYOUTS == {"9:16", "3:4", "1:1", "4:3", "16:9", "21:9"}

FRAME_RATES == {24, 25, 30, 50, 60}

PLATFORM_PRESETS ==
  [p \in {"douyin", "kuaishou", "xiaohongshu", "bilibili", "youtube",
          "instagram_reels", "instagram_feed", "weixin"} |->
     [resolution |-> "1080p",
      layout |-> CASE p \in {"douyin", "kuaishou", "instagram_reels", "weixin"} -> "9:16"
                   [] p = "xiaohongshu" -> "3:4"
                   [] p \in {"bilibili", "youtube"} -> "16:9"
                   [] OTHER -> "1:1",
      fps |-> 30]]

TRANSITIONS == {"none", "fade", "slide_left", "slide_right", "slide_up", "slide_down",
                "zoom_in", "zoom_out", "dissolve", "wipe_left", "wipe_right"}

FIT_MODES == {"crop", "fit", "stretch"}

COLOR_FILTERS == {"none", "grayscale", "vintage", "warm", "cool", "high_contrast", "soft"}

EFFECT_TYPES == {"none", "ken_burns_in", "ken_burns_out", "shake", "zoom_in", "zoom_out",
                 "pan_left", "pan_right", "pan_up", "pan_down"}

SUBTITLE_POSITIONS == {"top", "center", "bottom", "top_left", "top_right", "left", "right",
                       "bottom_left", "bottom_right"}

OUTPUT_QUALITIES == {"low", "medium", "high", "ultra"}

\* ranges, in tenths
TRANSITION_DURATION_MIN == 3
TRANSITION_DURATION_MAX == 20
BRIGHTNESS_MIN == 5
BRIGHTNESS_MAX == 20
CONTRAST_MIN == 5
CONTRAST_MAX == 20
SATURATION_MIN == 0
SATURATION_MAX == 20
BGM_VOLUME_MIN == 0
BGM_VOLUME_MAX == 10
BGM_FADE_IN_MIN == 0
BGM_FADE_IN_MAX == 50
BGM_FADE_OUT_MIN == 0
BGM_FADE_OUT_MAX == 50

\* longest accepted script, in characters (video.py, line 314)
MAX_SCRIPT_LENGTH == 5000

\* ------------------------------------------------------------------------
\* Optional values
\* ------------------------------------------------------------------------

None == <<>>

Some(x) == <<x>>

\* Python truthiness of an Optional[str]: None and "" are falsy
TruthyStr(o) == o # None /\ o[1] # ""

\* ------------------------------------------------------------------------
\* Task status codes and names (video_service.py, lines 3209-3233)
\* ------------------------------------------------------------------------

TASK_STATUS_PENDING == 0
TASK_STATUS_PROCESSING == 1
TASK_STATUS_COMPLETED == 2
TASK_STATUS_FAILED == 3

TASK_STATUS_NAMES ==
  [c \in {TASK_STATUS_PENDING, TASK_STATUS_PROCESSING, TASK_STATUS_COMPLETED, TASK_STATUS_FAILED} |->
     CASE c = TASK_STATUS_PENDING -> "pending"
       [] c = TASK_STATUS_PROCESSING -> "processing"
       [] c = TASK_STATUS_COMPLETED -> "completed"
       [] OTHER -> "failed"]

get_task_status_name(status_code) ==
  IF status_code \in DOMAIN TASK_STATUS_NAMES THEN TASK_STATUS_NAMES[status_code] ELSE "unknown"

\* ------------------------------------------------------------------------
\* Status response (video_service.py, lines 3236-3426)
\* Message texts are the source's Chinese texts in English.
\* ------------------------------------------------------------------------

Max(a, b) == IF a >= b THEN a ELSE b

Min(a, b) == IF a <= b THEN a ELSE b

\* default_messages.get(status_code, "unknown status")
DefaultMessage(status_code) ==
  CASE status_code = TASK_STATUS_PENDING -> "waiting..."
    [] status_code = TASK_STATUS_PROCESSING -> "processing..."
    [] status_code = TASK_STATUS_COMPLETED -> "video generated"
    [] status_code = TASK_STATUS_FAILED -> "video generation failed"
    [] OTHER -> "unknown status"

\* progress = max(0, min(100, progress))
ClampProgress_NoFloor(progress) == Min(100, progress)

ClampProgress(progress) == Max(0, Min(100, progress))

\* a builder that passes the conditional fields through whatever the status
build_task_status_response_PassThrough(status_code, progress, progress_message, error_message, download_url, duration, task_id) ==
  [status |-> get_task_status_name(status_code),
   progress |-> IF status_code = TASK_STATUS_FAILED THEN 0
                ELSE IF status_code = TASK_STATUS_COMPLETED THEN 100
                ELSE ClampProgress(progress),
   message |-> IF TruthyStr(progress_message) THEN progress_message[1]
               ELSE DefaultMessage(status_code),
   download_url |-> download_url,
   error_message |-> error_message,
   duration |-> duration,
   task_id |-> task_id]

\* the TaskStatusResponse object the builder returns
build_task_status_response(status_code, progress, progress_message, error_message, download_url, duration, task_id) ==
  [status |-> get_task_status_name(status_code),
   progress |-> IF status_code = TASK_STATUS_FAILED THEN 0
                ELSE IF status_code = TASK_STATUS_COMPLETED THEN 100
                ELSE ClampProgress(progress),
   message |-> IF TruthyStr(progress_message) THEN progress_message[1]
               ELSE DefaultMessage(status_code),
   download_url |-> IF status_code = TASK_STATUS_COMPLETED THEN download_url ELSE None,
   error_message |-> IF status_code = TASK_STATUS_FAILED THEN error_message ELSE None,
   duration |-> IF status_code = TASK_STATUS_COMPLETED THEN duration ELSE None,
   task_id |-> task_id]

\* the keys TaskStatusResponse.to_dict puts in its result
to_dict_keys(r) ==
  {"status", "progress", "message"}
    \cup (IF TruthyStr(r.task_id) THEN {"task_id"} ELSE {})
    \cup (IF r.status = "completed" /\ TruthyStr(r.download_url) THEN {"download_url"} ELSE {})
    \cup (IF r.status = "completed" /\ r.duration # None THEN {"duration"} ELSE {})
    \cup (IF r.status = "failed" /\ TruthyStr(r.error_message) THEN {"error_message"} ELSE {})

\* TaskStatusResponse.to_dict
to_dict(r) ==
  [k \in to_dict_keys(r) |->
     CASE k = "status" -> r.status
       [] k = "progress" -> r.progress
       [] k = "message" -> r.message
       [] k = "task_id" -> r.task_id[1]
       [] k = "download_url" -> r.download_url[1]
       [] k = "duration" -> r.duration[1]
       [] OTHER -> r.error_message[1]]

\* validate_task_status_response: TRUE iff the list of errors is empty
\* (progress and message are an int and a str in every response of the model)
validate_task_status_response(response) ==
  /\ "status" \in DOMAIN response
  /\ "progress" \in DOMAIN response
  /\ "message" \in DOMAIN response
  /\ response["status"] \in {"pending", "processing", "completed", "failed"}
  /\ ~(response["status"] = "completed" /\ "download_url" \notin DOMAIN response)
  /\ ~(response["status"] = "failed" /\ "error_message" \notin DOMAIN response)
  /\ response["progress"] >= 0
  /\ response["progress"] <= 100

\* ------------------------------------------------------------------------
\* Task-creation request (video.py, class VideoTaskCreate, lines 31-94)
\* ------------------------------------------------------------------------

\* the request every field of which holds its declared default, with a script
DefaultRequest ==
  [script_len |-> 12,
   bgm_volume |-> 3, bgm_fade_in |-> 0, bgm_fade_out |-> 0,
   video_resolution |-> "1080p", video_layout |-> "9:16", video_fps |-> 30,
   platform_preset |-> None, fit_mode |-> "crop",
   clip_min_duration |-> 30, clip_max_duration |-> 100,
   transition_type |-> "fade", transition_duration |-> 5,
   subtitle_size |-> 48, subtitle_stroke_width |-> 20, subtitle_position |-> "bottom",
   effect_type |-> None, color_filter |-> "none",
   brightness |-> 10, contrast |-> 10, saturation |-> 10,
   output_quality |-> "high"]

\* the values the model tries for each field: members of the closed set or
\* range, its two bounds, and values just outside
FieldValues(f) ==
  CASE f = "script_len" -> {0, 1, MAX_SCRIPT_LENGTH, MAX_SCRIPT_LENGTH + 1}
    [] f = "bgm_volume" -> {-1, 0, 10, 11}
    [] f = "bgm_fade_in" -> {-1, 0, 50, 51}
    [] f = "bgm_fade_out" -> {-1, 0, 50, 51}
    [] f = "video_resolution" -> VIDEO_RESOLUTIONS \cup {"8k", ""}
    [] f = "video_layout" -> VIDEO_LAYOUTS \cup {"portrait", ""}
    [] f = "video_fps" -> FRAME_RATES \cup {23, 29, 61}
    [] f = "platform_preset" -> {None, Some(""), Some("douyin"), Some("bilibili"), Some("vimeo")}
    [] f = "fit_mode" -> FIT_MODES \cup {"tile", ""}
    [] f = "clip_min_duration" -> {9, 10, 300, 301}
    [] f = "clip_max_duration" -> {9, 10, 29, 600, 601}
    [] f = "transition_type" -> TRANSITIONS \cup {"spin", ""}
    [] f = "transition_duration" -> {2, 3, 20, 21}
    [] f = "subtitle_size" -> {11, 12, 120, 121}
    [] f = "subtitle_stroke_width" -> {-1, 0, 100, 101}
    [] f = "subtitle_position" -> SUBTITLE_POSITIONS \cup {"middle", ""}
    [] f = "effect_type" -> {None, Some(""), Some("none"), Some("shake"), Some("sparkle")}
    [] f = "color_filter" -> COLOR_FILTERS \cup {"sepia", ""}
    [] f = "brightness" -> {4, 5, 20, 21}
    [] f = "contrast" -> {4, 5, 20, 21}
    [] f = "saturation" -> {-1, 0, 20, 21}
    [] OTHER -> OUTPUT_QUALITIES \cup {"max", ""}

\* the requests of the model: the default request with one field changed
Requests ==
  UNION {{[DefaultRequest EXCEPT ![f] = v] : v \in FieldValues(f)} : f \in DOMAIN DefaultRequest}

\* the Field(ge=..., le=...) constraints of VideoTaskCreate: a request that
\* breaks one is answered 422 before create_video_task runs
FieldConstraintsHold(data) ==
  /\ data.bgm_volume >= 0 /\ data.bgm_volume <= 10
  /\ data.bgm_fade_in >= 0 /\ data.bgm_fade_in <= 50
  /\ data.bgm_fade_out >= 0 /\ data.bgm_fade_out <= 50
  /\ data.video_fps >= 24 /\ data.video_fps <= 60
  /\ data.clip_min_duration >= 10 /\ data.clip_min_duration <= 300
  /\ data.clip_max_duration >= 10 /\ data.clip_max_duration <= 600
  /\ data.transition_duration >= 3 /\ data.transition_duration <= 20
  /\ data.subtitle_size >= 12 /\ data.subtitle_size <= 120
  /\ data.subtitle_stroke_width >= 0 /\ data.subtitle_stroke_width <= 100
  /\ data.brightness >= 5 /\ data.brightness <= 20
  /\ data.contrast >= 5 /\ data.contrast <= 20
  /\ data.saturation >= 0 /\ data.saturation <= 20

\* the checks of create_video_task without the effect-type check
RequestChecksPass_NoEffectCheck(data) ==
  /\ ~(data.script_len = 0)
  /\ ~(data.script_len > MAX_SCRIPT_LENGTH)
  /\ data.video_resolution \in VIDEO_RESOLUTIONS
  /\ data.video_layout \in VIDEO_LAYOUTS
  /\ data.video_fps \in FRAME_RATES
  /\ ~(TruthyStr(data.platform_preset) /\ data.platform_preset[1] \notin DOMAIN PLATFORM_PRESETS)
  /\ data.fit_mode \in FIT_MODES
  /\ data.transition_type \in TRANSITIONS
  /\ ~(data.transition_duration < TRANSITION_DURATION_MIN
       \/ data.transition_duration > TRANSITION_DURATION_MAX)
  /\ data.color_filter \in COLOR_FILTERS
  /\ ~(data.brightness < BRIGHTNESS_MIN \/ data.brightness > BRIGHTNESS_MAX)
  /\ ~(data.contrast < CONTRAST_MIN \/ data.contrast > CONTRAST_MAX)
  /\ ~(data.saturation < SATURATION_MIN \/ data.saturation > SATURATION_MAX)
  /\ ~(data.bgm_volume < BGM_VOLUME_MIN \/ data.bgm_volume > BGM_VOLUME_MAX)
  /\ ~(data.bgm_fade_in < BGM_FADE_IN_MIN \/ data.bgm_fade_in > BGM_FADE_IN_MAX)
  /\ ~(data.bgm_fade_out < BGM_FADE_OUT_MIN \/ data.bgm_fade_out > BGM_FADE_OUT_MAX)
  /\ ~(data.clip_min_duration > data.clip_max_duration)
  /\ data.subtitle_position \in SUBTITLE_POSITIONS
  /\ data.output_quality \in OUTPUT_QUALITIES

\* the checks of create_video_task, lines 310-445: TRUE iff none raises
\* HTTPException(400)
RequestChecksPass(data) ==
  /\ ~(data.script_len = 0)
  /\ ~(data.script_len > MAX_SCRIPT_LENGTH)
  /\ data.video_resolution \in VIDEO_RESOLUTIONS
  /\ data.video_layout \in VIDEO_LAYOUTS
  /\ data.video_fps \in FRAME_RATES
  /\ ~(TruthyStr(data.platform_preset) /\ data.platform_preset[1] \notin DOMAIN PLATFORM_PRESETS)
  /\ data.fit_mode \in FIT_MODES
  /\ data.transition_type \in TRANSITIONS
  /\ ~(data.transition_duration < TRANSITION_DURATION_MIN
       \/ data.transition_duration > TRANSITION_DURATION_MAX)
  /\ data.color_filter \in COLOR_FILTERS
  /\ ~(TruthyStr(data.effect_type) /\ data.effect_type[1] \notin EFFECT_TYPES)
  /\ ~(data.brightness < BRIGHTNESS_MIN \/ data.brightness > BRIGHTNESS_MAX)
  /\ ~(data.contrast < CONTRAST_MIN \/ data.contrast > CONTRAST_MAX)
  /\ ~(data.saturation < SATURATION_MIN \/ data.saturation > SATURATION_MAX)
  /\ ~(data.bgm_volume < BGM_VOLUME_MIN \/ data.bgm_volume > BGM_VOLUME_MAX)
  /\ ~(data.bgm_fade_in < BGM_FADE_IN_MIN \/ data.bgm_fade_in > BGM_FADE_IN_MAX)
  /\ ~(data.bgm_fade_out < BGM_FADE_OUT_MIN \/ data.bgm_fade_out > BGM_FADE_OUT_MAX)
  /\ ~(data.clip_min_duration > data.clip_max_duration)
  /\ data.subtitle_position \in SUBTITLE_POSITIONS
  /\ data.output_quality \in OUTPUT_QUALITIES

\* ------------------------------------------------------------------------
\* State
\* ------------------------------------------------------------------------

VARIABLES
  tasks,      \* table ipl_video_tasks: the sequence of committed rows, task_id = index
  quota,      \* the user's UserServiceQuota row
  runs,       \* the worker runs started so far, each a record (see NewRun)
  request,    \* what became of the most recent task-creation request
  built,      \* the TaskStatusResponse object built most recently, None before the first
  response,   \* its to_dict(), the body of the answer
  args,       \* arguments of the direct call of a function, None if none
  result,     \* what that call returned or raised, None before it ends
  watch       \* the endpoint whose answers the state keeps: "create", "status" or "none"

vars == <<tasks, quota, runs, request, built, response, args, result, watch>>

\* a task_id no row of the table has
NoSuchTask == 0

\* the row create_video_task inserts (video.py, lines 462-510); the columns
\* kept are the ones the workers and the status query use
NewTaskRow_Pending ==
  [status |-> TASK_STATUS_PENDING, progress |-> 0,
   progress_message |-> "task created, waiting...",
   error_message |-> None, output_video_url |-> None, output_duration |-> None]

NewTaskRow ==
  [status |-> TASK_STATUS_PROCESSING, progress |-> 0,
   progress_message |-> "task created, waiting...",
   error_message |-> None, output_video_url |-> None, output_duration |-> None]

\* a worker run at its first instruction
NewRun(kind, task_id) ==
  [kind |-> kind,          \* "thread": process_video, "queue": run_video_synthesis
   task_id |-> task_id,
   pc |-> "start",
   num_clips |-> 0,        \* num_clips of create_video_from_config
   i |-> 0,                \* index of the clip loop
   open |-> {},            \* media resources opened and not yet closed
   exc |-> None,           \* str(e) of the exception being handled
   meta |-> None,          \* progress of the last self.update_state of a queue run
   outcome |-> "running"]  \* "returned" or "raised" once the run is over

\* db.commit(): the attributes assigned in the session reach the row in one write
Commit_StatusOnly(row, dirty) ==
  [f \in DOMAIN row |-> IF f \in DOMAIN dirty /\ f = "status" THEN dirty[f] ELSE row[f]]

Commit(row, dirty) ==
  [f \in DOMAIN row |-> IF f \in DOMAIN dirty THEN dirty[f] ELSE row[f]]

\* the attributes each update assigns before its commit
ProgressAssign(percent, message) ==
  [progress |-> percent, progress_message |-> message]

\* run_video_synthesis, lines 19-21
StartAssign ==
  [status |-> TASK_STATUS_PROCESSING, progress |-> 5, progress_message |-> "task started..."]

\* video.py lines 632-636, video_tasks.py lines 84-88
CompletionAssign(output_path, duration) ==
  [status |-> TASK_STATUS_COMPLETED, progress |-> 100, progress_message |-> "video generated",
   output_video_url |-> Some(output_path), output_duration |-> Some(duration)]

\* a failure handler that records the message and leaves the status alone
FailureAssign_NoStatus(e) ==
  [progress |-> 0, error_message |-> Some(e)]

\* a failure handler that keeps the progress of the last report
FailureAssign_KeepProgress(e) ==
  [status |-> TASK_STATUS_FAILED, error_message |-> Some(e)]

\* video.py lines 647-649, video_tasks.py lines 109-111
FailureAssign(e) ==
  [status |-> TASK_STATUS_FAILED, progress |-> 0, error_message |-> Some(e)]

\* db.query(VideoTask).filter(VideoTask.task_id == task_id).first() is not None
Found(task_id) == task_id \in DOMAIN tasks

\* the table after the session of a run commits `dirty` on the row of task_id;
\* no row, no write (the `if task:` of the workers)
Write(task_id, dirty) ==
  IF Found(task_id) THEN [tasks EXCEPT ![task_id] = Commit(@, dirty)] ELSE tasks

\* the state after start-up: an empty task table, a user with one free and one
\* paid call left
Start ==
  /\ tasks = <<>>
  /\ quota = [free_quota |-> 1, paid_quota |-> 1]
  /\ runs = <<>>
  /\ request = None
  /\ built = None
  /\ response = None
  /\ result = None

Init == Start /\ args = None /\ watch = "none"

\* ------------------------------------------------------------------------
\* create_video_task (video.py, lines 287-662)
\* ------------------------------------------------------------------------

\* a request as its documented sets and ranges read it: some enum field holds a value that is
\* no member of its closed set, or some ranged field a value outside its range
OutsideLiteral(data) ==
  \/ data.video_resolution \notin VIDEO_RESOLUTIONS
  \/ data.video_layout \notin VIDEO_LAYOUTS
  \/ data.video_fps \notin FRAME_RATES
  \/ (data.platform_preset # None /\ data.platform_preset[1] \notin DOMAIN PLATFORM_PRESETS)
  \/ data.fit_mode \notin FIT_MODES
  \/ data.transition_type \notin TRANSITIONS
  \/ data.color_filter \notin COLOR_FILTERS
  \/ (data.effect_type # None /\ data.effect_type[1] \notin EFFECT_TYPES)
  \/ data.subtitle_position \notin SUBTITLE_POSITIONS
  \/ data.output_quality \notin OUTPUT_QUALITIES
  \/ data.brightness \notin 5..20
  \/ data.contrast \notin 5..20
  \/ data.saturation \notin 0..20
  \/ data.transition_duration \notin 3..20
  \/ data.bgm_volume \notin 0..10
  \/ data.bgm_fade_in \notin 0..50
  \/ data.bgm_fade_out \notin 0..50
  \/ data.clip_min_duration \notin 10..300
  \/ data.clip_max_duration \notin 10..600
  \/ data.subtitle_size \notin 12..120
  \/ data.subtitle_stroke_width \notin 0..100

\* the same, an empty platform_preset or effect_type counting as not given
OutsideGiven(data) ==
  OutsideLiteral([data EXCEPT
    !.platform_preset = IF @ = Some("") THEN None ELSE @,
    !.effect_type = IF @ = Some("") THEN None ELSE @])

\* what the state keeps of a request, when the answers of create_video_task
\* are watched
Seen(data, code) ==
  IF watch = "create"
  THEN Some([result |-> code, outside |-> OutsideLiteral(data),
             outside_given |-> OutsideGiven(data)])
  ELSE request

\* what the validation makes of a request
Verdict(data) ==
  <<FieldConstraintsHold(data), RequestChecksPass(data), OutsideLiteral(data), OutsideGiven(data)>>

\* one request for each verdict the requests of the model meet
RequestSamples ==
  {CHOOSE d \in Requests : Verdict(d) = v : v \in {Verdict(d) : d \in Requests}}

\* 422: a Field constraint of VideoTaskCreate fails; the handler does not run
CreateUnprocessable(data) ==
  /\ ~FieldConstraintsHold(data)
  /\ request' = Seen(data, 422)
  /\ UNCHANGED <<tasks, quota, runs, built, response, args, result, watch>>

\* 400: one of the checks of lines 310-445 raises
CreateBadRequest(data) ==
  /\ FieldConstraintsHold(data)
  /\ ~RequestChecksPass(data)
  /\ request' = Seen(data, 400)
  /\ UNCHANGED <<tasks, quota, runs, built, response, args, result, watch>>

\* 403: check_and_deduct_quota finds neither quota sufficient
\* (quota_service.py, lines 29-36; quota_per_call is 1)
CreateQuotaDenied(data) ==
  /\ FieldConstraintsHold(data)
  /\ RequestChecksPass(data)
  /\ quota.free_quota < 1
  /\ quota.paid_quota < 1
  /\ request' = Seen(data, 403)
  /\ UNCHANGED <<tasks, quota, runs, built, response, args, result, watch>>

\* the request is accepted: the quota is deducted (free first), the row is
\* inserted and committed, the background thread is started
CreateAccepted(data) ==
  /\ FieldConstraintsHold(data)
  /\ RequestChecksPass(data)
  /\ (quota.free_quota >= 1 \/ quota.paid_quota >= 1)
  /\ Len(runs) < MaxRuns
  /\ quota' = IF quota.free_quota >= 1
              THEN [quota EXCEPT !.free_quota = @ - 1]
              ELSE [quota EXCEPT !.paid_quota = @ - 1]
  /\ tasks' = Append(tasks, NewTaskRow)
  /\ runs' = Append(runs, NewRun("thread", Len(tasks) + 1))
  /\ request' = Seen(data, 200)
  /\ UNCHANGED <<built, response, args, result, watch>>

create_video_task ==
  \E data \in RequestSamples :
    \/ CreateUnprocessable(data)
    \/ CreateBadRequest(data)
    \/ CreateQuotaDenied(data)
    \/ CreateAccepted(data)

\* the task queue hands run_video_synthesis a task_id: the id of a row, or an
\* id no row has
Deliver ==
  /\ Len(runs) < MaxRuns
  /\ \E task_id \in DOMAIN tasks \cup {NoSuchTask} :
       runs' = Append(runs, NewRun("queue", task_id))
  /\ UNCHANGED <<tasks, quota, request, built, response, args, result, watch>>

\* ------------------------------------------------------------------------
\* The workers: process_video (video.py, lines 563-652) and
\* run_video_synthesis (video_tasks.py, lines 10-117)
\*
\* A step of a run is what the run does up to and including its next commit
\* (or its end); what it does in between is local to the run.
\* ------------------------------------------------------------------------

\* media resources
Voice == <<"voice">>
Bgm == <<"bgm">>
Final == <<"final">>
ClipOf(i) == <<"clip", i>>

\* a record with some fields replaced
With(rec, fields) ==
  [f \in DOMAIN rec |-> IF f \in DOMAIN fields THEN fields[f] ELSE rec[f]]

\* the run r goes on with these fields changed
Goes(r, fields) == runs' = [runs EXCEPT ![r] = With(@, fields)]

\* an exception leaves the try block of the worker: control is in its handler,
\* the locals of create_video_from_config are gone, what it opened stays open
Raises(r, message) ==
  Goes(r, [pc |-> "handler", exc |-> Some(message), num_clips |-> 0, i |-> 0])

\* the run is over
Ends(r, outcome) ==
  Goes(r, [pc |-> "done", outcome |-> outcome, exc |-> None, num_clips |-> 0, i |-> 0])

\* the run is in its handler after its report of percent
RaisesAt(r, percent, message) ==
  Goes(r, [pc |-> "handler", exc |-> Some(message), num_clips |-> 0, i |-> 0,
           meta |-> IF runs[r].kind = "queue" THEN Some(percent) ELSE runs[r].meta])

\* the fields of a run that goes on after its report of percent: the
\* progress_callback of run_video_synthesis calls self.update_state first
After(r, percent, fields) ==
  [f \in DOMAIN fields \cup {"meta"} |->
     IF f \in DOMAIN fields THEN fields[f]
     ELSE IF runs[r].kind = "queue" THEN Some(percent) ELSE runs[r].meta]

\* progress_callback(percent, message) of either worker: one commit
progress_callback(r, percent, message) ==
  tasks' = Write(runs[r].task_id, ProgressAssign(percent, message))

\* process_video up to its first report. The thread is started after the row
\* is committed, so the row is found (no row: the thread returns at once).
ThreadStart(r) ==
  /\ runs[r].kind = "thread"
  /\ runs[r].pc = "start"
  /\ IF Found(runs[r].task_id)
     THEN /\ progress_callback(r, 5, "generating voice...")
          /\ Goes(r, [pc |-> "parse"])
     ELSE /\ Ends(r, "returned")
          /\ UNCHANGED tasks
  /\ UNCHANGED <<quota, request, built, response, args, result, watch>>

\* run_video_synthesis up to its first commit: status 1, progress 5
QueueStart(r) ==
  /\ runs[r].kind = "queue"
  /\ runs[r].pc = "start"
  /\ tasks' = Write(runs[r].task_id, StartAssign)
  /\ Goes(r, After(r, 10, [pc |-> "parse"]))
  /\ UNCHANGED <<quota, request, built, response, args, result, watch>>

\* ------------------------------------------------------------------------
\* create_video_from_config (video_service.py, lines 2766-3139), run by
\* either worker
\* ------------------------------------------------------------------------

\* update_progress(5): parsing the configuration (sizes, modes: no exception
\* leaves this part)
RenderParse(r) ==
  /\ runs[r].pc = "parse"
  /\ progress_callback(r, 5, "parsing config...")
  /\ Goes(r, After(r, 5, [pc |-> "voice"]))
  /\ UNCHANGED <<quota, request, built, response, args, result, watch>>

\* update_progress(10), then the narration is opened if its file exists
RenderVoice(r) ==
  /\ runs[r].pc = "voice"
  /\ progress_callback(r, 10, "loading voice...")
  /\ \/ Goes(r, After(r, 10, [pc |-> "media"]))
     \/ Goes(r, After(r, 10, [pc |-> "media", open |-> runs[r].open \cup {Voice}]))
     \/ RaisesAt(r, 10, "narration unreadable")
  /\ UNCHANGED <<quota, request, built, response, args, result, watch>>

\* update_progress(20), then num_clips = max(len(media_files), len(sentences), 1)
RenderMedia(r) ==
  /\ runs[r].pc = "media"
  /\ progress_callback(r, 20, "loading media...")
  /\ \E n \in 1..MaxClips : Goes(r, After(r, 20, [pc |-> "clips", num_clips |-> n]))
  /\ UNCHANGED <<quota, request, built, response, args, result, watch>>

\* update_progress(30), before the clip loop
RenderClips(r) ==
  /\ runs[r].pc = "clips"
  /\ progress_callback(r, 30, "generating clips...")
  /\ Goes(r, After(r, 30, [pc |-> "clip", i |-> 0]))
  /\ UNCHANGED <<quota, request, built, response, args, result, watch>>

\* the percentage reported after clip i of n: 30 + int(25 * (i + 1) / n)
ClipPercent(i, n) == 30 + ((25 * (i + 1)) \div n)

\* one turn of the clip loop: clip i is loaded and appended to video_clips,
\* or loading it fails; then update_progress for the clip
RenderClip(r) ==
  /\ runs[r].pc = "clip"
  /\ LET i == runs[r].i
         n == runs[r].num_clips
         next == IF i + 1 = n THEN "compose" ELSE "clip"
     IN \/ /\ progress_callback(r, ClipPercent(i, n), "processing clip")
           /\ Goes(r, After(r, ClipPercent(i, n),
                             [pc |-> next, i |-> i + 1, open |-> runs[r].open \cup {ClipOf(i)}]))
        \/ /\ Raises(r, "media unreadable")
           /\ UNCHANGED tasks
  /\ UNCHANGED <<quota, request, built, response, args, result, watch>>

\* update_progress(55), then the clips are composed (a failing transition
\* falls back to concatenation; concatenation itself may fail); subtitles
\* follow if they are enabled and the script has a sentence
RenderCompose(r) ==
  /\ runs[r].pc = "compose"
  /\ progress_callback(r, 55, "applying transitions...")
  /\ \/ Goes(r, After(r, 55, [pc |-> "subtitles", open |-> runs[r].open \cup {Final}]))
     \/ Goes(r, After(r, 55, [pc |-> "audio", open |-> runs[r].open \cup {Final}]))
     \/ RaisesAt(r, 55, "compositing failed")
  /\ UNCHANGED <<quota, request, built, response, args, result, watch>>

\* update_progress(65), then the captions are rendered
RenderSubtitles(r) ==
  /\ runs[r].pc = "subtitles"
  /\ progress_callback(r, 65, "adding subtitles...")
  /\ \/ Goes(r, After(r, 65, [pc |-> "audio"]))
     \/ RaisesAt(r, 65, "caption rendering failed")
  /\ UNCHANGED <<quota, request, built, response, args, result, watch>>

\* update_progress(80), then the BGM is opened if its file exists and the
\* tracks are mixed
RenderAudio(r) ==
  /\ runs[r].pc = "audio"
  /\ progress_callback(r, 80, "adding audio...")
  /\ \/ Goes(r, After(r, 80, [pc |-> "export"]))
     \/ Goes(r, After(r, 80, [pc |-> "export", open |-> runs[r].open \cup {Bgm}]))
     \/ RaisesAt(r, 80, "bgm unreadable")
  /\ UNCHANGED <<quota, request, built, response, args, result, watch>>

\* what stays open after lines 3125-3135: every resource is closed
AfterCleanup(open) == {}

\* update_progress(90), write_videofile, then the resources are closed
RenderExport(r) ==
  /\ runs[r].pc = "export"
  /\ progress_callback(r, 90, "exporting video...")
  /\ \/ Goes(r, After(r, 90, [pc |-> "finish", open |-> AfterCleanup(runs[r].open)]))
     \/ RaisesAt(r, 90, "encoding failed")
  /\ UNCHANGED <<quota, request, built, response, args, result, watch>>

\* update_progress(100); create_video_from_config returns
RenderFinish(r) ==
  /\ runs[r].pc = "finish"
  /\ progress_callback(r, 100, "video generated")
  /\ Goes(r, After(r, 100, [pc |-> "readback"]))
  /\ UNCHANGED <<quota, request, built, response, args, result, watch>>

\* ------------------------------------------------------------------------
\* The end of a worker run
\* ------------------------------------------------------------------------

\* settings.OUTPUT_DIR/<task_id>.mp4
OutputPath(task_id) == "outputs/<task_id>.mp4"

\* the duration read back from the written file (opened and closed by the
\* with block); the model lets it depend on the number of clips only
ReadBackDuration(run) == run.num_clips * 65

\* the duration is read back and the completion is committed; the run returns
Complete(r) ==
  /\ runs[r].pc = "readback"
  /\ \/ /\ tasks' = Write(runs[r].task_id,
                          CompletionAssign(OutputPath(runs[r].task_id), ReadBackDuration(runs[r])))
        /\ Ends(r, "returned")
     \/ /\ Raises(r, "output unreadable")
        /\ UNCHANGED tasks
  /\ UNCHANGED <<quota, request, built, response, args, result, watch>>

\* how a run ends after its handler: run_video_synthesis re-raises,
\* process_video has swallowed the exception
HandlerOutcome(kind) == IF kind = "queue" THEN "raised" ELSE "returned"

\* except Exception as e: the failure is committed if the row is found
Handler(r) ==
  /\ runs[r].pc = "handler"
  /\ tasks' = Write(runs[r].task_id, FailureAssign(runs[r].exc[1]))
  /\ Ends(r, HandlerOutcome(runs[r].kind))
  /\ UNCHANGED <<quota, request, built, response, args, result, watch>>

WorkerStep(r) ==
  \/ ThreadStart(r)
  \/ QueueStart(r)
  \/ RenderParse(r)
  \/ RenderVoice(r)
  \/ RenderMedia(r)
  \/ RenderClips(r)
  \/ RenderClip(r)
  \/ RenderCompose(r)
  \/ RenderSubtitles(r)
  \/ RenderAudio(r)
  \/ RenderExport(r)
  \/ RenderFinish(r)
  \/ Complete(r)
  \/ Handler(r)

\* ------------------------------------------------------------------------
\* get_task_status (video.py, lines 665-764)
\* ------------------------------------------------------------------------

\* the task_id as the string the response carries
TaskIdString(task_id) == "<task_id>"

\* settings.API_BASE_URL/api/video/<task_id>/download
DownloadUrl(task_id) == "/api/video/<task_id>/download"

\* the TaskStatusResponse built for a row. celery_task_id is assigned nowhere
\* in the repository, so the branch of lines 715-755 is never taken.
StatusOf(task_id, row) ==
  IF row.status = TASK_STATUS_COMPLETED
  THEN build_task_status_response(TASK_STATUS_COMPLETED, 100, Some("video generated"), None,
                                  Some(DownloadUrl(task_id)), row.output_duration,
                                  Some(TaskIdString(task_id)))
  ELSE IF row.status = TASK_STATUS_FAILED
  THEN LET msg == IF TruthyStr(row.error_message) THEN row.error_message[1]
                  ELSE "video generation failed"
       IN build_task_status_response(TASK_STATUS_FAILED, 0, Some(msg), Some(msg), None, None,
                                     Some(TaskIdString(task_id)))
  ELSE build_task_status_response(row.status, row.progress,
                                  Some(IF row.progress_message # "" THEN row.progress_message
                                       ELSE "waiting..."),
                                  None, None, None, Some(TaskIdString(task_id)))

\* one query reads the row, the response is built from what it read
get_task_status ==
  /\ \E task_id \in DOMAIN tasks :
       IF watch = "status"
       THEN /\ built' = Some(StatusOf(task_id, tasks[task_id]))
            /\ response' = Some(to_dict(StatusOf(task_id, tasks[task_id])))
       ELSE UNCHANGED <<built, response>>
  /\ UNCHANGED <<tasks, quota, runs, request, args, result, watch>>

\* ------------------------------------------------------------------------
\* The system
\* ------------------------------------------------------------------------

Next ==
  \/ create_video_task
  \/ Deliver
  \/ \E r \in DOMAIN runs : WorkerStep(r)
  \/ get_task_status

Spec == Init /\ [][Next]_vars

\* the same system, the answers of create_video_task kept
InitRequests == Start /\ args = None /\ watch = "create"

SpecRequests == InitRequests /\ [][Next]_vars

\* the same system, the answers of get_task_status kept
InitQueries == Start /\ args = None /\ watch = "status"

SpecQueries == InitQueries /\ [][Next]_vars

\* every worker run that can take a step eventually takes one: a thread or a
\* worker process is scheduled
FairSpec == Spec /\ \A r \in 1..MaxRuns : WF_vars(r \in DOMAIN runs /\ WorkerStep(r))

\* ------------------------------------------------------------------------
\* The builder called directly, as the tests of test_video_service.py call it
\* ------------------------------------------------------------------------

StatusCodes == {TASK_STATUS_PENDING, TASK_STATUS_PROCESSING, TASK_STATUS_COMPLETED,
                TASK_STATUS_FAILED}

ProgressInputs == {-40, -1, 0, 1, 50, 99, 100, 101, 250}

OptionalTexts(text) == {None, Some(""), Some(text)}

\* the arguments of one call
BuilderArgs ==
  [status_code : StatusCodes, progress : ProgressInputs,
   progress_message : OptionalTexts("message"),
   error_message : OptionalTexts("out of memory"),
   download_url : OptionalTexts("http://example.com/video.mp4"),
   duration : {None, Some(0), Some(305)},
   task_id : {None, Some("test-task-id")}]

InitStatus ==
  /\ Start
  /\ watch = "none"
  /\ \E a \in BuilderArgs : args = Some(a)

CallBuilder ==
  /\ args # None
  /\ built = None
  /\ LET a == args[1]
         r == build_task_status_response(a.status_code, a.progress, a.progress_message,
                                         a.error_message, a.download_url, a.duration,
                                         a.task_id)
     IN /\ built' = Some(r)
        /\ response' = Some(to_dict(r))
  /\ UNCHANGED <<tasks, quota, runs, request, args, result, watch>>

SpecStatus == InitStatus /\ [][CallBuilder]_vars

\* ------------------------------------------------------------------------
\* Functions called directly: a call returns a value or raises
\* ------------------------------------------------------------------------

Returned(v) == Some([raised |-> FALSE, value |-> v])

Raised == Some([raised |-> TRUE, value |-> <<>>])

\* ------------------------------------------------------------------------
\* calculate_video_size (video_service.py, lines 807-851)
\* ------------------------------------------------------------------------

\* VIDEO_RESOLUTIONS[resolution]["height"]
ResolutionHeight(resolution) ==
  CASE resolution = "480p" -> 480
    [] resolution = "720p" -> 720
    [] resolution = "1080p" -> 1080
    [] resolution = "2k" -> 1440
    [] OTHER -> 2160

\* VIDEO_LAYOUTS[layout]["ratio"]
LayoutRatio(layout) ==
  CASE layout = "9:16" -> <<9, 16>>
    [] layout = "3:4" -> <<3, 4>>
    [] layout = "1:1" -> <<1, 1>>
    [] layout = "4:3" -> <<4, 3>>
    [] layout = "16:9" -> <<16, 9>>
    [] OTHER -> <<21, 9>>

\* x if x % 2 == 0 else x + 1
EvenUp_Keep(x) == x

EvenUp(x) == IF x % 2 = 0 THEN x ELSE x + 1

\* int(a * b / c) for positive integers: the float quotient truncated
IntMulDiv(a, b, c) == (a * b) \div c

\* a sizer that takes the height for the long side whatever the layout
calculate_video_size_HeightFirst(resolution, layout) ==
  IF resolution \notin VIDEO_RESOLUTIONS \/ layout \notin VIDEO_LAYOUTS
  THEN Raised
  ELSE LET ratio_w == LayoutRatio(layout)[1]
           ratio_h == LayoutRatio(layout)[2]
           height == ResolutionHeight(resolution)
       IN Returned(<<EvenUp(IntMulDiv(height, ratio_w, ratio_h)), EvenUp(height)>>)

calculate_video_size(resolution, layout) ==
  IF resolution \notin VIDEO_RESOLUTIONS \/ layout \notin VIDEO_LAYOUTS
  THEN Raised
  ELSE LET ratio_w == LayoutRatio(layout)[1]
           ratio_h == LayoutRatio(layout)[2]
           base_height == ResolutionHeight(resolution)
       IN IF ratio_w >= ratio_h
          THEN Returned(<<EvenUp(IntMulDiv(base_height, ratio_w, ratio_h)), EvenUp(base_height)>>)
          ELSE Returned(<<EvenUp(base_height), EvenUp(IntMulDiv(base_height, ratio_h, ratio_w))>>)

\* the calls made: every supported resolution and layout, and unsupported ones
SizeArgs ==
  [resolution : VIDEO_RESOLUTIONS \cup {"8k", ""},
   layout : VIDEO_LAYOUTS \cup {"portrait", ""}]

InitSize ==
  /\ Start
  /\ watch = "none"
  /\ \E a \in SizeArgs : args = Some(a)

CallSize ==
  /\ args # None
  /\ result = None
  /\ result' = calculate_video_size(args[1].resolution, args[1].layout)
  /\ UNCHANGED <<tasks, quota, runs, request, built, response, args, watch>>

SpecSize == InitSize /\ [][CallSize]_vars

\* ------------------------------------------------------------------------
\* The video parameters of a render: platform preset against explicit values
\* (video_service.py, lines 2804-2823; video.py, lines 447-452 and 528-560)
\* ------------------------------------------------------------------------

\* VIDEO_SIZES[size][layout] of get_video_size, unknown names replaced by
\* "1080p" and "portrait"
get_video_size(size, layout) ==
  LET short == CASE size = "720p" -> 720
                 [] size = "4k" -> 2160
                 [] OTHER -> 1080
      long == CASE size = "720p" -> 1280
                [] size = "4k" -> 3840
                [] OTHER -> 1920
  IN IF layout = "landscape" THEN <<long, short>> ELSE <<short, long>>

\* size of create_video_from_config: calculate_video_size, get_video_size if
\* it raises
RenderSize(resolution, layout) ==
  IF ~calculate_video_size(resolution, layout)[1].raised
  THEN calculate_video_size(resolution, layout)[1].value
  ELSE get_video_size(resolution, IF layout \in {"9:16", "3:4"} THEN "portrait" ELSE "landscape")

\* resolution, layout, fps and size as create_video_from_config takes them
\* from its config
EffectiveVideo(config) ==
  LET preset_used == TruthyStr(config.platform_preset)
                       /\ config.platform_preset[1] \in DOMAIN PLATFORM_PRESETS
      resolution == IF preset_used THEN PLATFORM_PRESETS[config.platform_preset[1]].resolution
                    ELSE config.video_resolution
      layout == IF preset_used THEN PLATFORM_PRESETS[config.platform_preset[1]].layout
                ELSE config.video_layout
      fps == IF preset_used THEN PLATFORM_PRESETS[config.platform_preset[1]].fps
             ELSE config.video_fps
  IN [resolution |-> resolution, layout |-> layout, fps |-> fps,
      size |-> RenderSize(resolution, layout)]

\* a request handler that leaves the explicit values as they were sent
ApplyPreset_Skip(data) == data

\* create_video_task, lines 447-452: the preset replaces the explicit values
ApplyPreset(data) ==
  IF TruthyStr(data.platform_preset)
  THEN [data EXCEPT !.video_resolution = PLATFORM_PRESETS[data.platform_preset[1]].resolution,
                    !.video_layout = PLATFORM_PRESETS[data.platform_preset[1]].layout,
                    !.video_fps = PLATFORM_PRESETS[data.platform_preset[1]].fps]
  ELSE data

\* full_config of create_video_task as far as these parameters go: it has no
\* "platform_preset" key
FullConfig(data) ==
  [platform_preset |-> None, video_resolution |-> data.video_resolution,
   video_layout |-> data.video_layout, video_fps |-> data.video_fps]

\* the video parameters sent, to the endpoint ("request") or to
\* create_video_from_config ("render")
PresetArgs ==
  [via : {"request", "render"},
   platform_preset : {None, Some(""), Some("vimeo")} \cup {Some(n) : n \in DOMAIN PLATFORM_PRESETS},
   video_resolution : VIDEO_RESOLUTIONS \cup {"8k"},
   video_layout : VIDEO_LAYOUTS \cup {"portrait"},
   video_fps : FRAME_RATES \cup {29}]

InitPreset ==
  /\ Start
  /\ watch = "none"
  /\ \E a \in PresetArgs : args = Some(a)

\* create_video_from_config is given the parameters in its config
CallRender ==
  /\ args # None
  /\ result = None
  /\ args[1].via = "render"
  /\ result' = Returned(EffectiveVideo(args[1]))
  /\ UNCHANGED <<tasks, quota, runs, request, built, response, args, watch>>

\* create_video_task is sent the parameters, every other field at its default;
\* if it accepts them, its worker renders with full_config
CallCreate ==
  /\ args # None
  /\ result = None
  /\ args[1].via = "request"
  /\ LET data == [DefaultRequest EXCEPT !.platform_preset = args[1].platform_preset,
                                        !.video_resolution = args[1].video_resolution,
                                        !.video_layout = args[1].video_layout,
                                        !.video_fps = args[1].video_fps]
     IN result' = IF FieldConstraintsHold(data) /\ RequestChecksPass(data)
                  THEN Returned(EffectiveVideo(FullConfig(ApplyPreset(data))))
                  ELSE Raised
  /\ UNCHANGED <<tasks, quota, runs, request, built, response, args, watch>>

SpecPreset == InitPreset /\ [][CallRender \/ CallCreate]_vars

\* ------------------------------------------------------------------------
\* Media adaptation (video_service.py, lines 1341-1474)
\* A size is <<width, height>> in pixels.
\* ------------------------------------------------------------------------

\* the values int(a * (b / c)) can take: the float quotient b / c is inexact
\* unless c divides b or is a power of two, and then a product whose exact
\* value is an integer may come out just below it
TruncatedProduct(a, b, c) ==
  IF b % c = 0 \/ c \in {1, 2, 4, 8, 16} \/ (a * b) % c # 0
  THEN {(a * b) \div c}
  ELSE {(a * b) \div c, ((a * b) \div c) - 1}

\* abs(clip_ratio - target_ratio) < 0.01
RatiosClose(clip, target) ==
  LET d == clip[1] * target[2] - target[1] * clip[2]
  IN 100 * (IF d >= 0 THEN d ELSE -d) < clip[2] * target[2]

\* clip_ratio > target_ratio
Wider(clip, target) == clip[1] * target[2] > target[1] * clip[2]

\* the size of clip.resize(height=h) and of clip.resize(width=w)
ResizeToHeight(clip, h) == <<(clip[1] * h) \div clip[2], h>>

ResizeToWidth(clip, w) == <<w, (clip[2] * w) \div clip[1]>>

\* the part of a clip of this size that [x1, x2) x [y1, y2) selects
Cropped(size, x1, x2, y1, y2) ==
  <<Max(0, Min(x2, size[1]) - Max(x1, 0)), Max(0, Min(y2, size[2]) - Max(y1, 0))>>

\* the window of resize_clip_to_fill: centre minus and plus half the target
CropWindow_Centered(scaled, target) ==
  <<(scaled \div 2) - (target \div 2), (scaled \div 2) + (target \div 2)>>

\* x_start = (new_w - target_w) // 2; the window is [x_start, x_start + target_w)
CropWindow(scaled, target) ==
  <<(scaled - target) \div 2, ((scaled - target) \div 2) + target>>

\* the truncated dimensions adapt_media_crop may compute
CropTruncations(clip, target) ==
  IF Wider(clip, target)
  THEN TruncatedProduct(clip[1], target[2], clip[2])
  ELSE TruncatedProduct(clip[2], target[1], clip[1])

\* adapt_media_crop, t the truncated dimension (new_w or new_h)
adapt_media_crop(clip, target, t) ==
  IF RatiosClose(clip, target)
  THEN [size |-> target, scaled |-> target, window |-> None]
  ELSE IF Wider(clip, target)
  THEN LET scaled == ResizeToHeight(clip, target[2])
           x == CropWindow(t, target[1])
       IN [size |-> Cropped(scaled, x[1], x[2], 0, target[2]), scaled |-> scaled,
           window |-> Some(<<x[1], x[2], 0, target[2]>>)]
  ELSE LET scaled == ResizeToWidth(clip, target[1])
           y == CropWindow(t, target[2])
       IN [size |-> Cropped(scaled, 0, target[1], y[1], y[2]), scaled |-> scaled,
           window |-> Some(<<0, target[1], y[1], y[2]>>)]

\* adapt_media_fit: the scaled clip centred on a background of the target size
adapt_media_fit(clip, target) ==
  [size |-> target,
   scaled |-> IF Wider(clip, target) THEN ResizeToWidth(clip, target[1])
              ELSE ResizeToHeight(clip, target[2]),
   window |-> None]

\* adapt_media_stretch: clip.resize(newsize=target_size)
adapt_media_stretch(clip, target) ==
  [size |-> target, scaled |-> target, window |-> None]

adapt_media_to_size(clip, target, fit_mode, t) ==
  IF fit_mode \notin FIT_MODES THEN Raised
  ELSE IF fit_mode = "crop" THEN Returned(adapt_media_crop(clip, target, t))
  ELSE IF fit_mode = "fit" THEN Returned(adapt_media_fit(clip, target))
  ELSE Returned(adapt_media_stretch(clip, target))

\* shortest and longest side, in pixels, of the sources and targets tried
MinSide == 4

MaxSide == 8

AdaptArgs ==
  [clip : (MinSide..MaxSide) \X (MinSide..MaxSide),
   target : (MinSide..MaxSide) \X (MinSide..MaxSide),
   fit_mode : FIT_MODES \cup {"tile"}]

InitAdapt ==
  /\ Start
  /\ watch = "none"
  /\ \E a \in AdaptArgs : args = Some(a)

CallAdapt ==
  /\ args # None
  /\ result = None
  /\ \E t \in CropTruncations(args[1].clip, args[1].target) :
       result' = adapt_media_to_size(args[1].clip, args[1].target, args[1].fit_mode, t)
  /\ UNCHANGED <<tasks, quota, runs, request, built, response, args, watch>>

SpecAdapt == InitAdapt /\ [][CallAdapt]_vars

\* ------------------------------------------------------------------------
\* Transitions (video_service.py, lines 1481-1818) and the compose step of
\* create_video_from_config (lines 2957-2979)
\*
\* A clip is its duration. Durations are in ticks of 1/80 s, so that the
\* halvings of apply_fade_transition are exact; the ranges stay in tenths.
\* ------------------------------------------------------------------------

TicksPerTenth == 8

\* clip.duration * 0.5
Half(x) == x \div 2

\* the overlap a transition uses: a first clip no longer than the transition
\* gets half its own duration
Overlap(clip1, duration) == IF clip1 <= duration THEN Half(clip1) ELSE duration

\* a fade that plays the second clip after the first
FadeDuration_NoOverlap(clip1, clip2, duration) == clip1 + clip2

\* apply_fade_transition: CompositeVideoClip of clip1 and of clip2 started at
\* clip1.duration - duration; its duration is the later of the two ends
FadeDuration(clip1, clip2, duration) ==
  Max(clip1, (clip1 - Overlap(clip1, duration)) + clip2)

\* apply_slide_transition: set_duration(clip1.duration + clip2.duration - duration)
SlideDuration(clip1, clip2, duration) ==
  (clip1 + clip2) - Overlap(clip1, duration)

\* the start of clip2 on the composed timeline: apply_fade_transition places it
\* with set_start(clip1.duration - duration), apply_slide_transition with
\* set_start(0) and moves it into the frame from clip1.duration - duration on
ClipStart(clip1, transition_type, duration) ==
  IF transition_type = "none" THEN clip1
  ELSE IF transition_type \in {"slide_left", "slide_right", "slide_up", "slide_down"}
  THEN 0
  ELSE clip1 - Overlap(clip1, duration)

\* apply_transition on two clips, type and duration valid (duration in ticks)
apply_transition(clip1, clip2, transition_type, duration) ==
  IF transition_type = "none" THEN clip1 + clip2
  ELSE IF transition_type \in {"slide_left", "slide_right", "slide_up", "slide_down"}
  THEN SlideDuration(clip1, clip2, duration)
  ELSE FadeDuration(clip1, clip2, duration)

\* result after the first k clips of the loop of apply_transitions_to_clips
RECURSIVE TransitionsFold(_, _, _, _)
TransitionsFold(clips, k, transition_type, duration) ==
  IF k = 1 THEN clips[1]
  ELSE apply_transition(TransitionsFold(clips, k - 1, transition_type, duration), clips[k],
                        transition_type, duration)

RECURSIVE SumOf(_, _)
SumOf(clips, k) == IF k = 0 THEN 0 ELSE SumOf(clips, k - 1) + clips[k]

\* concatenate_videoclips(video_clips)
Concatenation(clips) ==
  [kind |-> "concatenation", duration |-> SumOf(clips, Len(clips)), transitions |-> 0,
   segments |-> clips]

\* a compositor that validates before it looks at the number of clips
apply_transitions_to_clips_ValidateFirst(clips, transition_type, duration, fails) ==
  IF clips = <<>> \/ transition_type \notin TRANSITIONS THEN Raised
  ELSE IF Len(clips) = 1
  THEN Returned([kind |-> "clip", duration |-> clips[1], transitions |-> 0, segments |-> clips])
  ELSE Returned(Concatenation(clips))

\* apply_transitions_to_clips; duration in tenths; fails: the compositing
\* library raises while a transition is built
apply_transitions_to_clips(clips, transition_type, duration, fails) ==
  IF clips = <<>> THEN Raised
  ELSE IF Len(clips) = 1
  THEN Returned([kind |-> "clip", duration |-> clips[1], transitions |-> 0, segments |-> clips])
  ELSE IF transition_type \notin TRANSITIONS THEN Raised
  ELSE IF transition_type # "none"
          /\ (duration < TRANSITION_DURATION_MIN \/ duration > TRANSITION_DURATION_MAX)
  THEN Raised
  ELSE IF fails THEN Raised
  ELSE IF transition_type = "none" THEN Returned(Concatenation(clips))
  ELSE Returned([kind |-> "transitions",
                 duration |-> TransitionsFold(clips, Len(clips), transition_type,
                                              duration * TicksPerTenth),
                 transitions |-> Len(clips) - 1, segments |-> clips])

TRANSITION_DURATION_DEFAULT == 5

\* total_duration of create_video_from_config, the segments standing for
\* num_clips * clip_duration
TotalDuration(clips, transition_enabled, transition_type, duration) ==
  SumOf(clips, Len(clips))
    - (IF transition_enabled /\ transition_type # "none" /\ Len(clips) > 1
       THEN (Len(clips) - 1) * duration * TicksPerTenth ELSE 0)

\* final_video of create_video_from_config: type and duration are normalised
\* first
ComposeFinal(clips, transition_enabled, transition_type, duration, fails) ==
  LET type == IF transition_type \notin TRANSITIONS THEN "fade" ELSE transition_type
      d == IF duration < TRANSITION_DURATION_MIN \/ duration > TRANSITION_DURATION_MAX
           THEN TRANSITION_DURATION_DEFAULT ELSE duration
  IN IF clips = <<>>
     THEN Returned([kind |-> "blank",
                    duration |-> TotalDuration(clips, transition_enabled, type, d),
                    transitions |-> 0, segments |-> clips])
     ELSE IF Len(clips) = 1
     THEN Returned([kind |-> "clip", duration |-> clips[1], transitions |-> 0, segments |-> clips])
     ELSE IF transition_enabled /\ type # "none"
     THEN IF apply_transitions_to_clips(clips, type, d, fails)[1].raised
          THEN Returned(Concatenation(clips))
          ELSE apply_transitions_to_clips(clips, type, d, fails)
     ELSE Returned(Concatenation(clips))

\* most segments composed
MaxSegments == 3

\* segment durations tried: 1.0 s, 1.5 s and 3.0 s, in ticks
SegmentDurations == {10 * TicksPerTenth, 15 * TicksPerTenth, 30 * TicksPerTenth}

TransitionArgs ==
  [via : {"function", "render"},
   clips : UNION {[1..n -> SegmentDurations] : n \in 0..MaxSegments},
   transition_enabled : BOOLEAN,
   transition_type : {"none", "fade", "slide_left", "zoom_in", "dissolve", "wipe_right", "spin"},
   duration : {2, 3, 5, 10, 20, 21},
   fails : BOOLEAN]

InitTransitions ==
  /\ Start
  /\ watch = "none"
  /\ \E a \in TransitionArgs : args = Some(a)

CallTransitions ==
  /\ args # None
  /\ result = None
  /\ args[1].via = "function"
  /\ result' = apply_transitions_to_clips(args[1].clips, args[1].transition_type,
                                          args[1].duration, args[1].fails)
  /\ UNCHANGED <<tasks, quota, runs, request, built, response, args, watch>>

CallCompose ==
  /\ args # None
  /\ result = None
  /\ args[1].via = "render"
  /\ result' = ComposeFinal(args[1].clips, args[1].transition_enabled,
                            args[1].transition_type, args[1].duration, args[1].fails)
  /\ UNCHANGED <<tasks, quota, runs, request, built, response, args, watch>>

SpecTransitions == InitTransitions /\ [][CallTransitions \/ CallCompose]_vars

\* ------------------------------------------------------------------------
\* The transforms of create_video_from_config (video_service.py, lines
\* 2841-2856, 2896-2979): each is applied inside try / except Exception
\*
\* A clip is the set of the transforms applied to it.
\* ------------------------------------------------------------------------

BRIGHTNESS_DEFAULT == 10

\* a transform applied with nothing around it
TryApply_Unguarded(clip, transform, raises) ==
  IF raises THEN Raised ELSE Returned(clip \cup {transform})

\* try: clip = transform(clip) / except Exception: pass
TryApply(clip, transform, raises) ==
  IF raises THEN Returned(clip) ELSE Returned(clip \cup {transform})

\* effect_type, color_filter and brightness after lines 2841-2856
EffectiveEffect(config) ==
  IF TruthyStr(config.effect_type) /\ config.effect_type[1] \notin EFFECT_TYPES
  THEN Some("none") ELSE config.effect_type

EffectiveFilter(config) ==
  IF config.color_filter \notin COLOR_FILTERS THEN "none" ELSE config.color_filter

EffectiveBrightness(config) == Max(BRIGHTNESS_MIN, Min(BRIGHTNESS_MAX, config.brightness))

\* the transforms one turn of the clip loop attempts: the effect on images
\* only, the filter and the adjustment on every clip
Attempted(config) ==
  (IF config.media = "image" /\ TruthyStr(EffectiveEffect(config))
      /\ EffectiveEffect(config) # Some("none") THEN {"effect"} ELSE {})
  \cup (IF EffectiveFilter(config) # "none" THEN {"filter"} ELSE {})
  \cup (IF EffectiveBrightness(config) # BRIGHTNESS_DEFAULT THEN {"adjust"} ELSE {})

\* the next statement of the turn, reached unless an exception is under way
Then(sofar, transform, attempted, failing) ==
  IF sofar[1].raised \/ transform \notin attempted THEN sofar
  ELSE TryApply(sofar[1].value, transform, transform \in failing)

\* one turn of the clip loop, the transforms of failing raising
LoopTurn(config, failing) ==
  Then(Then(Then(Returned({}), "effect", Attempted(config), failing),
            "filter", Attempted(config), failing),
       "adjust", Attempted(config), failing)

\* clip_duration of the default configuration, (3.0 + 10.0) / 2, in ticks
ClipTicks == 65 * TicksPerTenth

\* most turns of the clip loop
MaxTurns == 2

RenderConfigs ==
  [media : {"image", "video", "none"},
   num_clips : 1..MaxTurns,
   effect_type : {None, Some(""), Some("none"), Some("zoom_in"), Some("spin")},
   color_filter : {"none", "warm", "spin"},
   brightness : {BRIGHTNESS_DEFAULT, 15, 30},
   transition_enabled : BOOLEAN,
   transition_type : {"none", "fade"}]

InitSoftFail ==
  /\ Start
  /\ watch = "none"
  /\ \E c \in RenderConfigs : args = Some(c)

\* the locals of the render
Locals(fields) == Some(With(result[1], fields))

\* the render has parsed its configuration and reported 30
SoftSetup ==
  /\ args # None
  /\ result = None
  /\ result' = Some([pc |-> "clip", i |-> 0, video_clips |-> <<>>, failed |-> {},
                     transition_failed |-> FALSE, final |-> None, progress |-> 30,
                     raised |-> FALSE])
  /\ UNCHANGED <<tasks, quota, runs, request, built, response, args, watch>>

\* one turn of the clip loop, some of the attempted transforms raising
SoftLoopTurn ==
  /\ result # None
  /\ result[1].pc = "clip"
  /\ \E failing \in SUBSET Attempted(args[1]) :
       LET i == result[1].i
           n == args[1].num_clips
           turn == LoopTurn(args[1], failing)
       IN IF turn[1].raised
          THEN result' = Locals([pc |-> "failed", raised |-> TRUE])
          ELSE result' = Locals([pc |-> IF i + 1 = n THEN "compose" ELSE "clip",
                                 i |-> i + 1,
                                 video_clips |-> Append(result[1].video_clips, turn[1].value),
                                 failed |-> result[1].failed \cup {<<i + 1, t>> : t \in failing},
                                 progress |-> ClipPercent(i, n)])
  /\ UNCHANGED <<tasks, quota, runs, request, built, response, args, watch>>

\* update_progress(55) and final_video, the compositing library raising or not
SoftCompose ==
  /\ result # None
  /\ result[1].pc = "compose"
  /\ \E fails \in BOOLEAN :
       LET composed == ComposeFinal([k \in DOMAIN result[1].video_clips |-> ClipTicks],
                                    args[1].transition_enabled, args[1].transition_type,
                                    TRANSITION_DURATION_DEFAULT, fails)
       IN IF composed[1].raised
          THEN result' = Locals([pc |-> "failed", raised |-> TRUE])
          ELSE result' = Locals([pc |-> "audio", final |-> Some(composed[1].value),
                                 transition_failed |-> fails, progress |-> 55])
  /\ UNCHANGED <<tasks, quota, runs, request, built, response, args, watch>>

\* update_progress(80) and the audio is mixed
SoftAudio ==
  /\ result # None
  /\ result[1].pc = "audio"
  /\ result' = Locals([pc |-> "export", progress |-> 80])
  /\ UNCHANGED <<tasks, quota, runs, request, built, response, args, watch>>

\* update_progress(90) and the video is written
SoftExport ==
  /\ result # None
  /\ result[1].pc = "export"
  /\ result' = Locals([pc |-> "finish", progress |-> 90])
  /\ UNCHANGED <<tasks, quota, runs, request, built, response, args, watch>>

\* update_progress(100)
SoftFinish ==
  /\ result # None
  /\ result[1].pc = "finish"
  /\ result' = Locals([pc |-> "done", progress |-> 100])
  /\ UNCHANGED <<tasks, quota, runs, request, built, response, args, watch>>

SoftNext == SoftSetup \/ SoftLoopTurn \/ SoftCompose \/ SoftAudio \/ SoftExport \/ SoftFinish

SpecSoftFail == InitSoftFail /\ [][SoftNext]_vars

\* the render is one thread of sequential code: its next statement is run
FairSpecSoftFail == SpecSoftFail /\ WF_vars(SoftNext)

\* ------------------------------------------------------------------------
\* The range validators (video_service.py, lines 425-443, 2334-2394,
\* 2577-2639); values in tenths
\* ------------------------------------------------------------------------

\* raise ValueError(message): the message gives the parameter, the two bounds
\* and the value
RaisedWith(parameter, lo, hi, value) ==
  Some([raised |-> TRUE, value |-> <<parameter, lo, hi, value>>])

validate_transition_duration(duration) ==
  IF duration < TRANSITION_DURATION_MIN \/ duration > TRANSITION_DURATION_MAX
  THEN RaisedWith("transition duration", TRANSITION_DURATION_MIN, TRANSITION_DURATION_MAX, duration)
  ELSE Returned(duration)

validate_brightness(brightness) ==
  IF brightness < BRIGHTNESS_MIN \/ brightness > BRIGHTNESS_MAX
  THEN RaisedWith("brightness", BRIGHTNESS_MIN, BRIGHTNESS_MAX, brightness)
  ELSE Returned(brightness)

validate_contrast(contrast) ==
  IF contrast < CONTRAST_MIN \/ contrast > CONTRAST_MAX
  THEN RaisedWith("contrast", CONTRAST_MIN, CONTRAST_MAX, contrast)
  ELSE Returned(contrast)

\* a validator whose lower bound is excluded
validate_saturation_ExclusiveLow(saturation) ==
  IF saturation <= SATURATION_MIN \/ saturation > SATURATION_MAX
  THEN RaisedWith("saturation", SATURATION_MIN, SATURATION_MAX, saturation)
  ELSE Returned(saturation)

validate_saturation(saturation) ==
  IF saturation < SATURATION_MIN \/ saturation > SATURATION_MAX
  THEN RaisedWith("saturation", SATURATION_MIN, SATURATION_MAX, saturation)
  ELSE Returned(saturation)

validate_bgm_fade_in(fade_in) ==
  IF fade_in < BGM_FADE_IN_MIN \/ fade_in > BGM_FADE_IN_MAX
  THEN RaisedWith("bgm fade in", BGM_FADE_IN_MIN, BGM_FADE_IN_MAX, fade_in)
  ELSE Returned(fade_in)

validate_bgm_fade_out(fade_out) ==
  IF fade_out < BGM_FADE_OUT_MIN \/ fade_out > BGM_FADE_OUT_MAX
  THEN RaisedWith("bgm fade out", BGM_FADE_OUT_MIN, BGM_FADE_OUT_MAX, fade_out)
  ELSE Returned(fade_out)

validate_bgm_volume(volume) ==
  IF volume < BGM_VOLUME_MIN \/ volume > BGM_VOLUME_MAX
  THEN RaisedWith("bgm volume", BGM_VOLUME_MIN, BGM_VOLUME_MAX, volume)
  ELSE Returned(volume)

Validators ==
  {"transition duration", "brightness", "contrast", "saturation", "bgm volume",
   "bgm fade in", "bgm fade out"}

\* the validator of a parameter, called
CallOf(parameter, value) ==
  CASE parameter = "transition duration" -> validate_transition_duration(value)
    [] parameter = "brightness" -> validate_brightness(value)
    [] parameter = "contrast" -> validate_contrast(value)
    [] parameter = "saturation" -> validate_saturation(value)
    [] parameter = "bgm volume" -> validate_bgm_volume(value)
    [] parameter = "bgm fade in" -> validate_bgm_fade_in(value)
    [] parameter = "bgm fade out" -> validate_bgm_fade_out(value)

\* the values tried go from -MaxTenths to MaxTenths tenths
MaxTenths == 60

ValidatorArgs == [parameter : Validators, value : (0 - MaxTenths)..MaxTenths]

InitValidators ==
  /\ Start
  /\ watch = "none"
  /\ \E a \in ValidatorArgs : args = Some(a)

CallValidator ==
  /\ args # None
  /\ result = None
  /\ result' = CallOf(args[1].parameter, args[1].value)
  /\ UNCHANGED <<tasks, quota, runs, request, built, response, args, watch>>

SpecValidators == InitValidators /\ [][CallValidator]_vars

\* ------------------------------------------------------------------------
\* The parameters create_video_from_config uses (video_service.py, lines
\* 2825-2857 and 3076-3085) and the validators they are handed to
\*
\* A config entry is None when the key is absent and Some(value) otherwise;
\* the value of effect_type may itself be None or a string.
\* ------------------------------------------------------------------------

CONTRAST_DEFAULT == 10
SATURATION_DEFAULT == 10
BGM_VOLUME_DEFAULT == 3
BGM_FADE_IN_DEFAULT == 0
BGM_FADE_OUT_DEFAULT == 0

\* config.get(key, default)
ConfigGet(entry, default) == IF entry = None THEN default ELSE entry[1]

\* a clamp that has no upper bound
Clamp_LowOnly(lo, hi, x) == Max(lo, x)

\* max(lo, min(hi, x))
Clamp(lo, hi, x) == Max(lo, Min(hi, x))

\* the local variables after lines 2825-2857 and 3077-3085
Normalised(config) ==
  LET fit_mode == ConfigGet(config.fit_mode, "crop")
      transition_type == ConfigGet(config.transition_type, "fade")
      transition_duration == ConfigGet(config.transition_duration, TRANSITION_DURATION_DEFAULT)
      effect_type == ConfigGet(config.effect_type, Some("none"))
      color_filter == ConfigGet(config.color_filter, "none")
  IN [fit_mode |-> IF fit_mode \notin FIT_MODES THEN "crop" ELSE fit_mode,
      transition_type |-> IF transition_type \notin TRANSITIONS THEN "fade" ELSE transition_type,
      transition_duration |->
        IF transition_duration < TRANSITION_DURATION_MIN
           \/ transition_duration > TRANSITION_DURATION_MAX
        THEN TRANSITION_DURATION_DEFAULT ELSE transition_duration,
      effect_type |-> IF TruthyStr(effect_type) /\ effect_type[1] \notin EFFECT_TYPES
                      THEN Some("none") ELSE effect_type,
      color_filter |-> IF color_filter \notin COLOR_FILTERS THEN "none" ELSE color_filter,
      brightness |-> Clamp(BRIGHTNESS_MIN, BRIGHTNESS_MAX,
                           ConfigGet(config.brightness, BRIGHTNESS_DEFAULT)),
      contrast |-> Clamp(CONTRAST_MIN, CONTRAST_MAX,
                         ConfigGet(config.contrast, CONTRAST_DEFAULT)),
      saturation |-> Clamp(SATURATION_MIN, SATURATION_MAX,
                           ConfigGet(config.saturation, SATURATION_DEFAULT)),
      bgm_volume |-> Clamp(BGM_VOLUME_MIN, BGM_VOLUME_MAX,
                           ConfigGet(config.bgm_volume, BGM_VOLUME_DEFAULT)),
      bgm_fade_in |-> Clamp(BGM_FADE_IN_MIN, BGM_FADE_IN_MAX,
                            ConfigGet(config.bgm_fade_in, BGM_FADE_IN_DEFAULT)),
      bgm_fade_out |-> Clamp(BGM_FADE_OUT_MIN, BGM_FADE_OUT_MAX,
                             ConfigGet(config.bgm_fade_out, BGM_FADE_OUT_DEFAULT))]

\* the validations of the render that raise when they are given the locals p:
\* adapt_media_to_size, apply_transitions_to_clips, apply_video_effect,
\* apply_color_filter, apply_video_adjustments and mix_audio_tracks, each
\* under the condition the render calls it with
ValidatorsRaising(p) ==
  (IF p.fit_mode \notin FIT_MODES THEN {"fit mode"} ELSE {})
  \cup (IF p.transition_type \notin TRANSITIONS THEN {"transition type"} ELSE {})
  \cup (IF p.transition_type # "none" /\ validate_transition_duration(p.transition_duration)[1].raised
        THEN {"transition duration"} ELSE {})
  \cup (IF TruthyStr(p.effect_type) /\ p.effect_type[1] # "none"
           /\ p.effect_type[1] \notin EFFECT_TYPES
        THEN {"effect type"} ELSE {})
  \cup (IF p.color_filter # "none" /\ p.color_filter \notin COLOR_FILTERS
        THEN {"color filter"} ELSE {})
  \cup (IF p.brightness # BRIGHTNESS_DEFAULT \/ p.contrast # CONTRAST_DEFAULT
           \/ p.saturation # SATURATION_DEFAULT
        THEN {n \in {"brightness", "contrast", "saturation"} : CallOf(n, p[n])[1].raised}
        ELSE {})
  \cup {n \in {"bgm volume", "bgm fade in", "bgm fade out"} :
          CallOf(n, CASE n = "bgm volume" -> p.bgm_volume
                      [] n = "bgm fade in" -> p.bgm_fade_in
                      [] n = "bgm fade out" -> p.bgm_fade_out)[1].raised}

\* the configurations tried: keys absent, valid values and invalid ones
NormaliseArgs ==
  [via : {"normalise"},
   fit_mode : {None, Some("fit"), Some("spin")},
   transition_type : {None, Some("none"), Some("spin")},
   transition_duration : {None, Some(2), Some(20), Some(21)},
   effect_type : {None, Some(None), Some(Some("")), Some(Some("shake")), Some(Some("spin"))},
   color_filter : {None, Some("warm"), Some("spin")},
   brightness : {None, Some(4), Some(21)},
   contrast : {Some(5), Some(30)},
   saturation : {Some(0), Some(0 - 1)},
   bgm_volume : {None, Some(0 - 1), Some(11)},
   bgm_fade_in : {Some(50), Some(51)},
   bgm_fade_out : {None, Some(0 - 10)}]

InitNormalise ==
  /\ Start
  /\ watch = "none"
  /\ \E a \in NormaliseArgs : args = Some(a)

\* create_video_from_config reads its parameters and later hands them on
CallNormalise ==
  /\ args # None
  /\ result = None
  /\ args[1].via = "normalise"
  /\ result' = Returned([used |-> Normalised(args[1]),
                         raising |-> ValidatorsRaising(Normalised(args[1]))])
  /\ UNCHANGED <<tasks, quota, runs, request, built, response, args, watch>>

SpecNormalise == InitNormalise /\ [][CallNormalise]_vars

\* ------------------------------------------------------------------------
\* mix_audio_tracks and apply_bgm_fade_effects (video_service.py, lines
\* 2640-2763)
\*
\* An audio clip is a record of its source, its duration, the factor its
\* volume was multiplied by and the fades put on it, all in tenths.
\* ------------------------------------------------------------------------

\* an audio file just opened
AudioFileClip(source, duration) ==
  [source |-> source, duration |-> duration, volume |-> 10, fade_in |-> 0, fade_out |-> 0]

\* a BGM left at its own duration
BgmFitted_AsIs(bgm, final_duration) == bgm

\* the BGM brought to final_duration: afx.audio_loop when it is shorter,
\* subclip(0, final_duration) when it is longer
BgmFitted(bgm, final_duration) ==
  IF bgm.duration < final_duration THEN [bgm EXCEPT !.duration = final_duration]
  ELSE IF bgm.duration > final_duration THEN [bgm EXCEPT !.duration = final_duration]
  ELSE bgm

\* a narration brought to an explicit target whatever its own duration
VoiceFitted_Looped(voice, target_duration) ==
  IF target_duration # None THEN [voice EXCEPT !.duration = target_duration[1]] ELSE voice

\* the narration: cut when it is longer than an explicit target, never looped
VoiceFitted(voice, target_duration) ==
  IF target_duration # None /\ voice.duration > target_duration[1]
  THEN [voice EXCEPT !.duration = target_duration[1]]
  ELSE voice

\* apply_bgm_fade_effects after its own validation: a fade of 0 is not applied
apply_bgm_fade_effects(bgm_clip, fade_in, fade_out) ==
  [bgm_clip EXCEPT !.fade_in = IF fade_in > 0 THEN fade_in ELSE @,
                   !.fade_out = IF fade_out > 0 THEN fade_out ELSE @]

\* the longest of the tracks
RECURSIVE LongestOf(_, _)
LongestOf(audio_clips, k) ==
  IF k = 0 THEN 0 ELSE Max(LongestOf(audio_clips, k - 1), audio_clips[k].duration)

\* a mix that wraps whatever it has in a composite
Mixed_AlwaysComposite(audio_clips) ==
  Returned(Some([composite |-> TRUE, tracks |-> audio_clips,
                 duration |-> LongestOf(audio_clips, Len(audio_clips))]))

\* lines 2757-2763: None, the only track, or CompositeAudioClip(audio_clips)
Mixed(audio_clips) ==
  IF audio_clips = <<>> THEN Returned(None)
  ELSE IF Len(audio_clips) = 1
  THEN Returned(Some([composite |-> FALSE, tracks |-> audio_clips,
                      duration |-> audio_clips[1].duration]))
  ELSE Returned(Some([composite |-> TRUE, tracks |-> audio_clips,
                      duration |-> LongestOf(audio_clips, Len(audio_clips))]))

\* mix_audio_tracks; voice_audio, bgm_audio and target_duration are optional
mix_audio_tracks(voice_audio, bgm_audio, bgm_volume, bgm_fade_in, bgm_fade_out, target_duration) ==
  IF validate_bgm_volume(bgm_volume)[1].raised THEN validate_bgm_volume(bgm_volume)
  ELSE IF validate_bgm_fade_in(bgm_fade_in)[1].raised THEN validate_bgm_fade_in(bgm_fade_in)
  ELSE IF validate_bgm_fade_out(bgm_fade_out)[1].raised THEN validate_bgm_fade_out(bgm_fade_out)
  ELSE IF target_duration = None /\ voice_audio = None /\ bgm_audio = None THEN Returned(None)
  ELSE
    LET final_duration == IF target_duration # None THEN target_duration[1]
                          ELSE IF voice_audio # None THEN voice_audio[1].duration
                          ELSE bgm_audio[1].duration
        voice == IF voice_audio = None THEN <<>>
                 ELSE <<VoiceFitted(voice_audio[1], target_duration)>>
        bgm == IF bgm_audio = None THEN <<>>
               ELSE <<apply_bgm_fade_effects(
                        [BgmFitted(bgm_audio[1], final_duration) EXCEPT
                           !.volume = (@ * bgm_volume) \div 10],
                        bgm_fade_in, bgm_fade_out)>>
    IN Mixed(voice \o bgm)

\* durations of the audio files and targets tried: 2.0 s, 4.0 s and 6.0 s
AudioDurations == {20, 40, 60}

MixArgs ==
  [voice_audio : {None} \cup {Some(AudioFileClip("voice", d)) : d \in AudioDurations},
   bgm_audio : {None} \cup {Some(AudioFileClip("bgm", d)) : d \in AudioDurations},
   bgm_volume : {-1, 0, 3, 10, 11},
   bgm_fade_in : {-1, 0, 20, 50, 51},
   bgm_fade_out : {-1, 0, 20, 50, 51},
   target_duration : {None} \cup {Some(d) : d \in AudioDurations}]

InitMix ==
  /\ Start
  /\ watch = "none"
  /\ \E a \in MixArgs : args = Some(a)

CallMix ==
  /\ args # None
  /\ result = None
  /\ result' = mix_audio_tracks(args[1].voice_audio, args[1].bgm_audio, args[1].bgm_volume,
                                args[1].bgm_fade_in, args[1].bgm_fade_out,
                                args[1].target_duration)
  /\ UNCHANGED <<tasks, quota, runs, request, built, response, args, watch>>

SpecMix == InitMix /\ [][CallMix]_vars

\* ------------------------------------------------------------------------
\* The captions of create_video_from_config (video_service.py, lines
\* 2984-3066); times in tenths
\*
\* A cue is a record of its text and its optional start and end; a caption is
\* a record of the cue or segment it comes from, its text, start and duration.
\* ------------------------------------------------------------------------

\* sub.get("start", 0) and sub.get("end", sub_start + 2)
CueStart(sub) == IF sub.start = None THEN 0 ELSE sub.start[1]

CueEnd(sub) == IF sub.end = None THEN CueStart(sub) + 20 ELSE sub.end[1]

\* a caption that keeps the end of its cue
CaptionOf_Uncut(sub, k, actual_duration) ==
  IF sub.text = "" \/ CueEnd(sub) - CueStart(sub) <= 0 \/ CueStart(sub) >= actual_duration
  THEN <<>>
  ELSE <<[of |-> k, text |-> sub.text, start |-> CueStart(sub),
          duration |-> CueEnd(sub) - CueStart(sub)]>>

\* one turn of the loop over sentence_subtitles: no caption, or the caption
\* of cue k cut at actual_duration
CaptionOf(sub, k, actual_duration) ==
  IF sub.text = "" \/ CueEnd(sub) - CueStart(sub) <= 0 \/ CueStart(sub) >= actual_duration
  THEN <<>>
  ELSE <<[of |-> k, text |-> sub.text, start |-> CueStart(sub),
          duration |-> Min(CueEnd(sub), actual_duration) - CueStart(sub)]>>

\* subtitle_clips after the first k cues
RECURSIVE PreciseCaptions(_, _, _)
PreciseCaptions(sentence_subtitles, k, actual_duration) ==
  IF k = 0 THEN <<>>
  ELSE PreciseCaptions(sentence_subtitles, k - 1, actual_duration)
         \o CaptionOf(sentence_subtitles[k], k, actual_duration)

\* the end of the last caption to end, 0 without captions
RECURSIVE LatestEnd(_, _)
LatestEnd(subtitle_clips, k) ==
  IF k = 0 THEN 0
  ELSE Max(LatestEnd(subtitle_clips, k - 1),
           subtitle_clips[k].start + subtitle_clips[k].duration)

\* CompositeVideoClip([final_video] + subtitle_clips) when there are captions
Overlaid(actual_duration, subtitle_clips) ==
  Returned([captions |-> subtitle_clips,
            duration |-> Max(actual_duration, LatestEnd(subtitle_clips, Len(subtitle_clips)))])

\* most cues supplied
MaxCues == 2

Cues ==
  [text : {"", "caption"},
   start : {None, Some(-10), Some(20), Some(50), Some(60)},
   end : {None, Some(10), Some(50), Some(70)}]

CueArgs ==
  [sentence_subtitles : UNION {[1..n -> Cues] : n \in 1..MaxCues},
   actual_duration : {30, 50}]

InitCues ==
  /\ Start
  /\ watch = "none"
  /\ \E a \in CueArgs : args = Some(a)

CallPreciseCaptions ==
  /\ args # None
  /\ result = None
  /\ result' = Overlaid(args[1].actual_duration,
                        PreciseCaptions(args[1].sentence_subtitles,
                                        Len(args[1].sentence_subtitles),
                                        args[1].actual_duration))
  /\ UNCHANGED <<tasks, quota, runs, request, built, response, args, watch>>

SpecCues == InitCues /\ [][CallPreciseCaptions]_vars

\* ------------------------------------------------------------------------
\* The captions without precise cues (video_service.py, lines 3026-3063).
\* actual_duration / num_clips need not be a whole number of tenths: the
\* times of this part are kept times num_clips.
\* ------------------------------------------------------------------------

\* a caption text that stays on the last sentence
SentenceAt_Last(sentences, i) == sentences[Min(i + 1, Len(sentences))]

\* sentences[i % len(sentences)]
SentenceAt(sentences, i) == sentences[(i % Len(sentences)) + 1]

\* the loop from turn i on; subtitle_duration times num_clips is
\* actual_duration
RECURSIVE EvenLoop(_, _, _, _, _, _)
EvenLoop(i, current_time, subtitle_clips, sentences, num_clips, actual_duration) ==
  LET subtitle_duration == actual_duration
      whole == actual_duration * num_clips
      seg_duration == IF current_time + subtitle_duration > whole
                      THEN whole - current_time ELSE subtitle_duration
  IN IF i = num_clips THEN subtitle_clips
     ELSE IF SentenceAt(sentences, i) = ""
     THEN EvenLoop(i + 1, current_time + subtitle_duration, subtitle_clips,
                   sentences, num_clips, actual_duration)
     ELSE IF current_time >= whole THEN subtitle_clips
     ELSE IF seg_duration <= 0
     THEN EvenLoop(i + 1, current_time, subtitle_clips, sentences, num_clips, actual_duration)
     ELSE EvenLoop(i + 1, current_time + subtitle_duration,
                   Append(subtitle_clips,
                          [of |-> i, text |-> SentenceAt(sentences, i),
                           start |-> current_time, duration |-> seg_duration]),
                   sentences, num_clips, actual_duration)

\* num_clips = max(len(media_files), len(sentences), 1)
NumClips(media_files, sentences) == Max(Max(media_files, Len(sentences)), 1)

\* the scripts tried, split into their sentences
Scripts == {<<"one">>, <<"one", "two">>, <<"one", "two", "three">>}

EvenArgs ==
  [sentences : Scripts,
   media_files : 0..(MaxSegments + 1),
   actual_duration : 1..MaxTenths]

InitEven ==
  /\ Start
  /\ watch = "none"
  /\ \E a \in EvenArgs : args = Some(a)

CallEvenCaptions ==
  /\ args # None
  /\ result = None
  /\ LET num_clips == NumClips(args[1].media_files, args[1].sentences)
     IN result' = Overlaid(args[1].actual_duration * num_clips,
                           EvenLoop(0, 0, <<>>, args[1].sentences, num_clips,
                                    args[1].actual_duration))
  /\ UNCHANGED <<tasks, quota, runs, request, built, response, args, watch>>

SpecEven == InitEven /\ [][CallEvenCaptions]_vars

\* ------------------------------------------------------------------------
\* The adjustments (video_service.py, lines 2423-2570)
\*
\* A pixel is its three channels, 0..255; coefficients are in tenths. The
\* float images are kept as integers times the scale named with them.
\* ------------------------------------------------------------------------

Channels == 1..3

\* np.clip(img, 0, 255).astype(np.uint8) of a value kept times scale
ToUint8(x, scale) == Max(0, Min(255 * scale, x)) \div scale

ChannelSum(img) == img[1] + img[2] + img[3]

adjust_brightness(pixel, brightness) ==
  IF brightness = 10 THEN pixel
  ELSE [ch \in Channels |-> ToUint8(pixel[ch] * brightness, 10)]

adjust_contrast(pixel, contrast) ==
  IF contrast = 10 THEN pixel
  ELSE [ch \in Channels |-> ToUint8((pixel[ch] - 128) * contrast + 1280, 10)]

\* gray + (img - gray) * saturation with gray the mean of the channels, times 30
adjust_saturation(pixel, saturation) ==
  IF saturation = 10 THEN pixel
  ELSE [ch \in Channels |->
          ToUint8(ChannelSum(pixel) * 10 + (3 * pixel[ch] - ChannelSum(pixel)) * saturation, 30)]

\* combined_adjustment: the three steps on the float image, one np.clip at
\* the end
apply_video_adjustments(pixel, brightness, contrast, saturation) ==
  IF brightness = 10 /\ contrast = 10 /\ saturation = 10 THEN pixel
  ELSE
    LET bright == [ch \in Channels |-> pixel[ch] * brightness]
        contrasted == [ch \in Channels |->
                         IF contrast # 10 THEN (bright[ch] - 1280) * contrast + 12800
                         ELSE bright[ch] * 10]
        saturated == [ch \in Channels |->
                        IF saturation # 10
                        THEN ChannelSum(contrasted) * 10
                               + (3 * contrasted[ch] - ChannelSum(contrasted)) * saturation
                        ELSE contrasted[ch] * 30]
    IN [ch \in Channels |-> ToUint8(saturated[ch], 3000)]

ChannelValues == {0, 60, 128, 200, 255}

AdjustArgs ==
  [pixel : [Channels -> ChannelValues],
   brightness : {BRIGHTNESS_MIN, BRIGHTNESS_DEFAULT, 15, BRIGHTNESS_MAX},
   contrast : {CONTRAST_MIN, 10, 15, CONTRAST_MAX},
   saturation : {SATURATION_MIN, 5, 10, SATURATION_MAX}]

InitAdjust ==
  /\ Start
  /\ watch = "none"
  /\ \E a \in AdjustArgs : args = Some(a)

\* the pixel goes through apply_video_adjustments, and through the three
\* single adjustments one after another
CallAdjust ==
  /\ args # None
  /\ result = None
  /\ result' = Returned(
       [combined |-> apply_video_adjustments(args[1].pixel, args[1].brightness,
                                             args[1].contrast, args[1].saturation),
        chained |-> adjust_saturation(
                      adjust_contrast(adjust_brightness(args[1].pixel, args[1].brightness),
                                      args[1].contrast),
                      args[1].saturation)])
  /\ UNCHANGED <<tasks, quota, runs, request, built, response, args, watch>>

SpecAdjust == InitAdjust /\ [][CallAdjust]_vars

\* ------------------------------------------------------------------------
\* The segment of one turn of the clip loop (video_service.py, lines
\* 2874-2877 and 2896-2937). clip_min_duration and clip_max_duration are in
\* tenths; their mean and every other time of this part are in twentieths of
\* a second.
\* ------------------------------------------------------------------------

\* one second, in twentieths
OneSecond == 20

\* clip_duration = (min_dur + max_dur) / 2
ClipDuration(min_dur, max_dur) == min_dur + max_dur

\* a window that starts at i * seg_duration
WindowStart_Index(i, seg_duration, duration) == i * seg_duration

\* start_pos = (i * seg_duration) % max(1, clip.duration - seg_duration)
WindowStart(i, seg_duration, duration) ==
  (i * seg_duration) % Max(OneSecond, duration - seg_duration)

\* the clip of turn i before it is adapted: its duration and, for a windowed
\* video, the window taken from the source
SegmentOf(source, duration, i, seg_duration) ==
  IF source = "video" /\ duration >= seg_duration
  THEN LET start_pos == WindowStart(i, seg_duration, duration)
           end_pos == Min(start_pos + seg_duration, duration)
       IN [kind |-> "window", start |-> start_pos, end |-> end_pos,
           duration |-> end_pos - start_pos]
  ELSE [kind |-> IF source = "video" THEN "loop" ELSE source,
        start |-> 0, end |-> seg_duration, duration |-> seg_duration]

SegmentArgs ==
  [source : {"image", "video", "none"},
   duration : {10, 40, 130, 139, 140, 150, 170, 400},
   i : 0..MaxSegments,
   clip_min_duration : {10, 30, 35},
   clip_max_duration : {35, 100}]

InitSegment ==
  /\ Start
  /\ watch = "none"
  /\ \E a \in SegmentArgs : args = Some(a)

CallSegment ==
  /\ args # None
  /\ result = None
  /\ result' = Returned(SegmentOf(args[1].source, args[1].duration, args[1].i,
                                  ClipDuration(args[1].clip_min_duration,
                                               args[1].clip_max_duration)))
  /\ UNCHANGED <<tasks, quota, runs, request, built, response, args, watch>>

SpecSegment == InitSegment /\ [][CallSegment]_vars

\* ------------------------------------------------------------------------
\* Properties
\* ------------------------------------------------------------------------

Terminal == {TASK_STATUS_COMPLETED, TASK_STATUS_FAILED}

\* C1: once a task record is completed or failed, no later write changes its
\* status, in any interleaving of worker runs and status queries.
C1_TerminalStatusIsFinal ==
  [][\A t \in DOMAIN tasks :
       tasks[t].status \in Terminal => tasks'[t].status = tasks[t].status]_vars

\* C2: whatever status code and integer progress the builder is given, the
\* progress of its response is an integer of 0..100, 100 if the status is
\* completed and 0 if it is failed.
C2_ProgressClamped ==
  built # None =>
    LET b == built[1]
        d == response[1]
    IN /\ b.progress \in 0..100
       /\ d["progress"] = b.progress
       /\ (args[1].status_code = TASK_STATUS_COMPLETED => b.progress = 100)
       /\ (args[1].status_code = TASK_STATUS_FAILED => b.progress = 0)

\* C2 witness: a processing response built from a progress above 100, and it
\* reports 100
C2_Witness ==
  /\ built # None
  /\ args[1].status_code = TASK_STATUS_PROCESSING
  /\ args[1].progress = 250
  /\ response[1]["progress"] = 100

\* C3: a response of build_task_status_response(...).to_dict() whose status is
\* completed has a download_url, and one whose status is failed has an
\* error_message, whatever arguments the builder was given.
C3_ConditionalFieldPresent ==
  response # None =>
    /\ (response[1]["status"] = "completed" => "download_url" \in DOMAIN response[1])
    /\ (response[1]["status"] = "failed" => "error_message" \in DOMAIN response[1])

\* C4: download_url and duration appear in a status response only if its
\* status is completed, error_message only if it is failed, whatever the
\* caller passes to the builder.
C4_ConditionalFieldsMatchState ==
  built # None =>
    LET b == built[1]
        d == response[1]
    IN /\ b.status # "completed" =>
            /\ b.download_url = None
            /\ b.duration = None
            /\ "download_url" \notin DOMAIN d
            /\ "duration" \notin DOMAIN d
       /\ b.status # "failed" =>
            /\ b.error_message = None
            /\ "error_message" \notin DOMAIN d

\* C4 witness: the builder was given a download_url, a duration and an
\* error_message for a pending task
C4_Witness ==
  /\ built # None
  /\ args[1].status_code = TASK_STATUS_PENDING
  /\ TruthyStr(args[1].download_url)
  /\ TruthyStr(args[1].error_message)
  /\ args[1].duration = Some(305)

\* C5: when an exception leaves the try block of a worker, the step of its
\* handler leaves the task record failed, with progress 0 and the message of
\* the exception, and the run of run_video_synthesis ends by raising it.
C5_FailureRecorded ==
  [][\A r \in DOMAIN runs :
       (runs[r].pc = "handler" /\ runs'[r].pc = "done") =>
         /\ runs[r].kind = "queue" => runs'[r].outcome = "raised"
         /\ Found(runs[r].task_id) =>
              /\ tasks'[runs[r].task_id].status = TASK_STATUS_FAILED
              /\ tasks'[runs[r].task_id].progress = 0
              /\ tasks'[runs[r].task_id].error_message = runs[r].exc]_vars

\* C5 witness: a run of run_video_synthesis has raised the error of the
\* export, and the record holds it
C5_Witness ==
  \E r \in DOMAIN runs :
    /\ runs[r].pc = "done"
    /\ runs[r].outcome = "raised"
    /\ Found(runs[r].task_id)
    /\ tasks[runs[r].task_id].status = TASK_STATUS_FAILED
    /\ tasks[runs[r].task_id].progress = 0
    /\ tasks[runs[r].task_id].error_message = Some("encoding failed")

\* a step of create_video_task: it answers a request or inserts a row
CreateStep == request' # request \/ Len(tasks') > Len(tasks)

\* C6, as the spec puts it: a request with an enum field outside its closed
\* set or a ranged field outside its range creates no task record, deducts no
\* quota and starts no render.
C6_OutsideRejected ==
  [][(CreateStep /\ request'[1].outside) =>
       /\ request'[1].result \in {400, 422}
       /\ UNCHANGED <<tasks, quota, runs>>]_vars

\* C6, amended: the same, an empty platform_preset or effect_type counting as
\* not given.
C6_OutsideGivenRejected ==
  [][(CreateStep /\ request'[1].outside_given) =>
       /\ request'[1].result \in {400, 422}
       /\ UNCHANGED <<tasks, quota, runs>>]_vars

\* C6 witness: a request outside a closed set or range was answered 400 while
\* a task exists and both calls of the quota are still there
C6_Witness ==
  /\ request # None
  /\ request[1].outside_given
  /\ request[1].result = 400
  /\ quota = [free_quota |-> 0, paid_quota |-> 1]
  /\ Len(tasks) = 1

C8_RenderEnds ==
  \A t \in 1..MaxRuns :
    (t \in DOMAIN tasks /\ tasks[t].status = TASK_STATUS_PROCESSING)
      ~> (t \in DOMAIN tasks /\ tasks[t].status \in Terminal)

\* C8 witness: a run has ended in its handler with the task failed, and a run
\* that found no record has ended
C8_Witness ==
  /\ \E r \in DOMAIN runs :
       /\ runs[r].pc = "done"
       /\ Found(runs[r].task_id)
       /\ tasks[runs[r].task_id].status = TASK_STATUS_FAILED
  /\ \E r \in DOMAIN runs :
       /\ runs[r].pc = "done"
       /\ ~Found(runs[r].task_id)

\* the (progress, progress_message) pairs the workers and create_video_task
\* write together
ReportPairs ==
  {<<0, "task created, waiting...">>, <<5, "task started...">>,
   <<5, "generating voice...">>, <<5, "parsing config...">>,
   <<10, "loading voice...">>, <<20, "loading media...">>,
   <<30, "generating clips...">>, <<55, "applying transitions...">>,
   <<65, "adding subtitles...">>, <<80, "adding audio...">>,
   <<90, "exporting video...">>, <<100, "video generated">>}
    \cup {<<ClipPercent(i, n), "processing clip">> : i \in 0..(MaxClips - 1), n \in 1..MaxClips}

\* C9: no row and no status response is torn: a completed one has the output
\* reference and the duration, a failed one the error message, and the
\* progress and message of a processing one come from one report.
C9_NoTornState ==
  /\ \A t \in DOMAIN tasks :
       /\ tasks[t].status = TASK_STATUS_COMPLETED =>
            /\ tasks[t].output_video_url # None
            /\ tasks[t].output_duration # None
       /\ tasks[t].status = TASK_STATUS_FAILED => tasks[t].error_message # None
       /\ tasks[t].status = TASK_STATUS_PROCESSING =>
            <<tasks[t].progress, tasks[t].progress_message>> \in ReportPairs
  /\ response # None =>
       LET d == response[1] IN
         /\ d["status"] = "completed" =>
              /\ "download_url" \in DOMAIN d
              /\ "duration" \in DOMAIN d
              /\ d["progress"] = 100
         /\ d["status"] = "failed" =>
              /\ "error_message" \in DOMAIN d
              /\ d["progress"] = 0
         /\ d["status"] = "processing" => <<d["progress"], d["message"]>> \in ReportPairs

\* C9 witness: a query has answered completed while another run on the same
\* task is still rendering
C9_Witness ==
  /\ response # None
  /\ response[1]["status"] = "completed"
  /\ \E r \in DOMAIN runs :
       /\ runs[r].pc \notin {"start", "done"}
       /\ Found(runs[r].task_id)
       /\ tasks[runs[r].task_id].status = TASK_STATUS_COMPLETED

\* C10: whatever way a run leaves create_video_from_config, by returning or
\* by an exception, none of the media resources it opened is still open.
C10_ClosedOnEveryExit ==
  \A r \in DOMAIN runs :
    runs[r].pc \in {"readback", "handler", "done"} => runs[r].open = {}

\* the call of calculate_video_size has returned for a supported pair
SizeReturned ==
  /\ result # None
  /\ args[1].resolution \in VIDEO_RESOLUTIONS
  /\ args[1].layout \in VIDEO_LAYOUTS
  /\ ~result[1].raised

Abs(x) == IF x >= 0 THEN x ELSE -x

\* C11: for every supported resolution and layout, calculate_video_size
\* returns a positive even width and height, and width/height is within 1%
\* (relative) of the ratio of the layout.
C11_SizeEvenAndInRatio ==
  (result # None /\ args[1].resolution \in VIDEO_RESOLUTIONS /\ args[1].layout \in VIDEO_LAYOUTS) =>
    /\ ~result[1].raised
    /\ LET w == result[1].value[1]
           h == result[1].value[2]
           rw == LayoutRatio(args[1].layout)[1]
           rh == LayoutRatio(args[1].layout)[2]
       IN /\ w > 0 /\ h > 0
          /\ w % 2 = 0 /\ h % 2 = 0
          /\ 100 * Abs(w * rh - h * rw) < h * rw

\* C11 witness: 480p at 16:9, where the quotient 853.33 is no integer
C11_Witness ==
  /\ SizeReturned
  /\ args[1].resolution = "480p"
  /\ args[1].layout = "16:9"
  /\ result[1].value = <<854, 480>>

\* round(a / b) of Python for positive integers: to the nearest, a tie to the
\* even neighbour
RoundDiv(a, b) ==
  LET q == a \div b
      r == a % b
  IN IF 2 * r < b THEN q
     ELSE IF 2 * r > b THEN q + 1
     ELSE IF q % 2 = 0 THEN q ELSE q + 1

\* the sizer the spec describes
ReferenceSize(resolution, layout) ==
  LET rw == LayoutRatio(layout)[1]
      rh == LayoutRatio(layout)[2]
      base == ResolutionHeight(resolution)
      up(x) == IF x % 2 = 0 THEN x ELSE x + 1
  IN IF rw >= rh
     THEN <<up(RoundDiv(base * rw, rh)), up(base)>>
     ELSE <<up(base), up(RoundDiv(base * rh, rw))>>

\* C12: for every supported resolution and layout, calculate_video_size
\* returns what the reference sizer of the spec returns.
C12_SizeIsReference ==
  (result # None /\ args[1].resolution \in VIDEO_RESOLUTIONS /\ args[1].layout \in VIDEO_LAYOUTS) =>
    /\ ~result[1].raised
    /\ result[1].value = ReferenceSize(args[1].resolution, args[1].layout)

\* C12 witness: 1080p at 9:16 gives 1080 x 1920
C12_Witness ==
  /\ SizeReturned
  /\ args[1].resolution = "1080p"
  /\ args[1].layout = "9:16"
  /\ result[1].value = <<1080, 1920>>

\* C13: when a recognised platform preset is given and a render takes place,
\* its resolution, layout, fps (and so its size) are the preset's, whatever
\* explicit values came with it.
C13_PresetHasPriority ==
  (/\ result # None
   /\ TruthyStr(args[1].platform_preset)
   /\ args[1].platform_preset[1] \in DOMAIN PLATFORM_PRESETS
   /\ ~result[1].raised) =>
    LET preset == PLATFORM_PRESETS[args[1].platform_preset[1]]
        used == result[1].value
    IN /\ used.resolution = preset.resolution
       /\ used.layout = preset.layout
       /\ used.fps = preset.fps
       /\ used.size = calculate_video_size(preset.resolution, preset.layout)[1].value

\* C13 witness: a request for bilibili with 480p, 9:16 and 60 fps is rendered
\* at 1920 x 1080
C13_Witness ==
  /\ result # None
  /\ args[1] = [via |-> "request", platform_preset |-> Some("bilibili"),
                video_resolution |-> "480p", video_layout |-> "9:16", video_fps |-> 60]
  /\ ~result[1].raised
  /\ result[1].value.size = <<1920, 1080>>
  /\ result[1].value.fps = 30

\* C14: for every source size, target size and fit mode of crop, fit and
\* stretch, the adapted clip has exactly the target size; in crop mode the
\* window lies inside the scaled clip and is target_w x target_h.
C14_AdaptedSizeIsTarget ==
  (result # None /\ args[1].fit_mode \in FIT_MODES) =>
    /\ ~result[1].raised
    /\ result[1].value.size = args[1].target
    /\ result[1].value.window # None =>
         LET win == result[1].value.window[1]
             scaled == result[1].value.scaled
         IN /\ 0 <= win[1] /\ win[2] <= scaled[1]
            /\ 0 <= win[3] /\ win[4] <= scaled[2]
            /\ win[2] - win[1] = args[1].target[1]
            /\ win[4] - win[3] = args[1].target[2]

\* C14 witness: a 6 x 6 source cropped to 5 x 8 is scaled to 8 x 8 and cut to
\* the columns 1 to 5
C14_Witness ==
  /\ result # None
  /\ args[1].fit_mode = "crop"
  /\ args[1].clip = <<6, 6>>
  /\ args[1].target = <<5, 8>>
  /\ result[1].value.scaled = <<8, 8>>
  /\ result[1].value.window = Some(<<1, 6, 0, 8>>)

\* apply_transitions_to_clips was called on two or more segments with a
\* transition other than none and a duration of its range, and nothing failed
TransitionsCalled ==
  /\ result # None
  /\ args[1].via = "function"
  /\ Len(args[1].clips) >= 2
  /\ args[1].transition_type \in TRANSITIONS \ {"none"}
  /\ args[1].duration >= TRANSITION_DURATION_MIN
  /\ args[1].duration <= TRANSITION_DURATION_MAX
  /\ ~args[1].fails

\* the duration the spec gives: the sum of the segments minus (n - 1) * d
FormulaDuration ==
  SumOf(args[1].clips, Len(args[1].clips))
    - (Len(args[1].clips) - 1) * args[1].duration * TicksPerTenth

C16_FewSegmentsUnchanged ==
  (result # None /\ args[1].via = "function" /\ Len(args[1].clips) <= 1) =>
    /\ ~result[1].raised
    /\ result[1].value.segments = args[1].clips
    /\ result[1].value.transitions = 0

\* C16, amended: a single segment is returned as it is, by
\* apply_transitions_to_clips and by the compose step of the render, whatever
\* the transition type and duration; for no segment apply_transitions_to_clips
\* raises, and the render composes a blank clip without calling it.
C16_SingleUnchangedEmptyRaises ==
  (result # None /\ args[1].via \in {"function", "render"} /\ Len(args[1].clips) <= 1) =>
    IF Len(args[1].clips) = 1
    THEN /\ ~result[1].raised
         /\ result[1].value.kind = "clip"
         /\ result[1].value.duration = args[1].clips[1]
         /\ result[1].value.transitions = 0
    ELSE IF args[1].via = "function"
    THEN result[1].raised
    ELSE /\ ~result[1].raised
         /\ result[1].value.kind = "blank"
         /\ result[1].value.transitions = 0

\* C16 witness: a single 1.5 s segment came back from the compositor called
\* with a transition type it does not know
C16_Witness ==
  /\ result # None
  /\ args[1].via = "function"
  /\ args[1].clips = <<15 * TicksPerTenth>>
  /\ args[1].transition_type = "spin"
  /\ ~result[1].raised
  /\ result[1].value.duration = 15 * TicksPerTenth

\* every clip made so far carries the transforms attempted on it less those
\* that raised, and clips whose transition raised are concatenated
TransformsAbsorbed ==
  result # None =>
    /\ ~result[1].raised
    /\ \A k \in DOMAIN result[1].video_clips :
         result[1].video_clips[k] =
           Attempted(args[1]) \ {t \in Attempted(args[1]) : <<k, t>> \in result[1].failed}
    /\ (result[1].final # None /\ result[1].transition_failed /\ args[1].num_clips >= 2) =>
         /\ result[1].final[1].kind = "concatenation"
         /\ result[1].final[1].transitions = 0
         /\ Len(result[1].final[1].segments) = args[1].num_clips

\* C17: an exception raised while an effect, a colour filter, an adjustment
\* or a transition is applied never fails the render: the clip stays as it
\* was before the transform (the clips are concatenated), and the render goes
\* on through audio and export to progress 100.
C17_TransformFailureAbsorbed ==
  /\ []TransformsAbsorbed
  /\ (result = None) ~> (result # None /\ result[1].pc = "done" /\ result[1].progress = 100)

\* C17 witness: a render of two images finished at 100 after the effect of
\* the first, the filter of the second and the transition had raised
C17_Witness ==
  /\ result # None
  /\ result[1].pc = "done"
  /\ result[1].progress = 100
  /\ args[1].num_clips = 2
  /\ {<<1, "effect">>, <<2, "filter">>} \subseteq result[1].failed
  /\ result[1].video_clips[1] = {"filter", "adjust"}
  /\ result[1].transition_failed
  /\ result[1].final[1].kind = "concatenation"

\* the closed ranges the spec gives, in tenths
ClaimedRange ==
  [p \in Validators |->
     CASE p = "transition duration" -> <<3, 20>>
       [] p \in {"brightness", "contrast"} -> <<5, 20>>
       [] p = "saturation" -> <<0, 20>>
       [] p = "bgm volume" -> <<0, 10>>
       [] p \in {"bgm fade in", "bgm fade out"} -> <<0, 50>>]

\* C18: each range validator returns its argument unchanged when it lies in
\* the closed range of its parameter, and raises a ValueError naming the
\* parameter, the bounds and the value when it lies outside.
C18_ValidatorsAcceptExactlyTheRange ==
  (result # None /\ args[1].parameter \in Validators) =>
    LET lo == ClaimedRange[args[1].parameter][1]
        hi == ClaimedRange[args[1].parameter][2]
        v == args[1].value
    IN IF lo <= v /\ v <= hi
       THEN result = Returned(v)
       ELSE /\ result[1].raised
            /\ result[1].value = <<args[1].parameter, lo, hi, v>>

\* C18 witness: a saturation of 0.0, the lower bound, was returned
C18_Witness ==
  /\ result # None
  /\ args[1].parameter = "saturation"
  /\ args[1].value = 0
  /\ result = Returned(0)

\* mix_audio_tracks was called with a volume and fades of their ranges
MixCalledValid ==
  /\ result # None
  /\ args[1].bgm_volume >= 0 /\ args[1].bgm_volume <= 10
  /\ args[1].bgm_fade_in >= 0 /\ args[1].bgm_fade_in <= 50
  /\ args[1].bgm_fade_out >= 0 /\ args[1].bgm_fade_out <= 50

\* C19: with a BGM, no narration and an explicit target duration, and a
\* volume in [0, 1] and fades in [0, 5], mix_audio_tracks returns a track of
\* exactly the target duration, the BGM being shorter, equal or longer.
C19_BgmOnlyHasTargetDuration ==
  (MixCalledValid /\ args[1].voice_audio = None /\ args[1].bgm_audio # None
   /\ args[1].target_duration # None) =>
    /\ ~result[1].raised
    /\ result[1].value # None
    /\ result[1].value[1].duration = args[1].target_duration[1]

\* C19 witness: a BGM of 2.0 s was looped to a target of 6.0 s
C19_Witness ==
  /\ MixCalledValid
  /\ args[1].voice_audio = None
  /\ args[1].bgm_audio = Some(AudioFileClip("bgm", 20))
  /\ args[1].target_duration = Some(60)
  /\ ~result[1].raised
  /\ result[1].value[1].duration = 60

\* C20: for a volume and fades of their ranges and any target duration,
\* mix_audio_tracks returns None when there is neither narration nor BGM, the
\* one processed track when there is exactly one of them, and a composite of
\* the two tracks when there are both.
C20_MixByPresence ==
  MixCalledValid =>
    LET voice == args[1].voice_audio
        bgm == args[1].bgm_audio
    IN /\ ~result[1].raised
       /\ (voice = None /\ bgm = None) => result[1].value = None
       /\ (voice # None /\ bgm = None) =>
            /\ result[1].value # None
            /\ ~result[1].value[1].composite
            /\ Len(result[1].value[1].tracks) = 1
            /\ result[1].value[1].tracks[1].source = "voice"
       /\ (voice = None /\ bgm # None) =>
            /\ result[1].value # None
            /\ ~result[1].value[1].composite
            /\ Len(result[1].value[1].tracks) = 1
            /\ result[1].value[1].tracks[1].source = "bgm"
            /\ result[1].value[1].tracks[1].volume = args[1].bgm_volume
       /\ (voice # None /\ bgm # None) =>
            /\ result[1].value # None
            /\ result[1].value[1].composite
            /\ Len(result[1].value[1].tracks) = 2
            /\ result[1].value[1].tracks[1].source = "voice"
            /\ result[1].value[1].tracks[1].volume = 10
            /\ result[1].value[1].tracks[2].source = "bgm"
            /\ result[1].value[1].tracks[2].volume = args[1].bgm_volume

\* C20 witness: a narration and a BGM at volume 0.3 came back as a composite
C20_Witness ==
  /\ MixCalledValid
  /\ args[1].voice_audio # None
  /\ args[1].bgm_audio # None
  /\ args[1].bgm_volume = 3
  /\ result[1].value # None
  /\ result[1].value[1].composite
  /\ result[1].value[1].tracks[2].volume = 3

\* C21: in mix_audio_tracks the narration is never looped: without an
\* explicit target it keeps its duration, which is then the duration the BGM
\* is brought to; with one it is cut when longer and left alone when shorter,
\* so its track lasts min(narration duration, target).
C21_NarrationNeverLooped ==
  (MixCalledValid /\ args[1].voice_audio # None) =>
    LET own == args[1].voice_audio[1].duration
        target == args[1].target_duration
        tracks == result[1].value[1].tracks
    IN /\ ~result[1].raised
       /\ result[1].value # None
       /\ tracks[1].source = "voice"
       /\ tracks[1].duration = IF target = None THEN own ELSE Min(own, target[1])
       /\ (target = None /\ args[1].bgm_audio # None) => tracks[2].duration = own

\* C21 witness: a narration of 2.0 s mixed with a BGM for a target of 6.0 s
\* kept its 2.0 s
C21_Witness ==
  /\ MixCalledValid
  /\ args[1].voice_audio = Some(AudioFileClip("voice", 20))
  /\ args[1].bgm_audio # None
  /\ args[1].target_duration = Some(60)
  /\ ~result[1].raised
  /\ result[1].value[1].tracks[1].duration = 20
  /\ result[1].value[1].tracks[2].duration = 60

\* C22: with precise cues every caption lies inside the composed duration T:
\* a cue starting at or after T gives no caption, a cue ending after T gives a
\* caption ending at T, every caption has start < T, a positive duration and
\* start + duration <= T, and the overlay lasts T.
C22_CaptionsInsideDuration ==
  result # None =>
    LET T == args[1].actual_duration
        cues == args[1].sentence_subtitles
        captions == result[1].value.captions
    IN /\ ~result[1].raised
       /\ result[1].value.duration = T
       /\ \A c \in DOMAIN captions :
            /\ captions[c].start < T
            /\ captions[c].duration > 0
            /\ captions[c].start + captions[c].duration <= T
            /\ captions[c].start = CueStart(cues[captions[c].of])
            /\ CueEnd(cues[captions[c].of]) > T => captions[c].start + captions[c].duration = T
            /\ CueEnd(cues[captions[c].of]) <= T =>
                 captions[c].start + captions[c].duration = CueEnd(cues[captions[c].of])
       /\ \A k \in DOMAIN cues :
            CueStart(cues[k]) >= T => \A c \in DOMAIN captions : captions[c].of # k

\* C22 witness: of a cue from 2.0 s to 7.0 s and a cue starting at 6.0 s, on
\* a video of 5.0 s, the first gave a caption from 2.0 s to 5.0 s, the second
\* none
C22_Witness ==
  /\ result # None
  /\ args[1].actual_duration = 50
  /\ args[1].sentence_subtitles =
       <<[text |-> "caption", start |-> Some(20), end |-> Some(70)],
         [text |-> "caption", start |-> Some(60), end |-> Some(70)]>>
  /\ result[1].value.captions =
       <<[of |-> 1, text |-> "caption", start |-> 20, duration |-> 30]>>

\* C23: apply_video_adjustments gives, for every pixel and every valid
\* coefficient triple, what adjust_brightness, adjust_contrast and
\* adjust_saturation give one after another, each clamping to 0..255.
C23_CombinedEqualsChained ==
  result # None => result[1].value.combined = result[1].value.chained

\* C24: without precise cues the composed duration T is divided evenly over
\* the n segments: caption i shows sentence i mod the number of sentences,
\* starts at i * T / n and lasts T / n, so the captions are in order, do not
\* overlap and none ends after T (times multiplied by n).
C24_CaptionsDivideEvenly ==
  result # None =>
    LET T == args[1].actual_duration
        n == NumClips(args[1].media_files, args[1].sentences)
        captions == result[1].value.captions
    IN /\ Len(captions) = n
       /\ result[1].value.duration = T * n
       /\ \A c \in DOMAIN captions :
            /\ captions[c].of = c - 1
            /\ captions[c].text = args[1].sentences[((c - 1) % Len(args[1].sentences)) + 1]
            /\ captions[c].start = (c - 1) * T
            /\ captions[c].duration = T
            /\ captions[c].start + captions[c].duration <= T * n
            /\ c > 1 => captions[c - 1].start + captions[c - 1].duration <= captions[c].start

\* C24 witness: two sentences over three segments of a video of 5.0 s; the
\* third caption shows the first sentence again, from 2 * 5.0 / 3 s on
C24_Witness ==
  /\ result # None
  /\ args[1].sentences = <<"one", "two">>
  /\ args[1].media_files = 3
  /\ args[1].actual_duration = 50
  /\ Len(result[1].value.captions) = 3
  /\ result[1].value.captions[3] = [of |-> 2, text |-> "one", start |-> 100, duration |-> 50]

\* C25: while a task is processing the progress of its row never decreases
\* from one write to the next, and no worker run publishes a lower progress
\* after a higher one.
C25_ProgressNeverDecreases ==
  [][/\ \A t \in DOMAIN tasks :
          (tasks[t].status = TASK_STATUS_PROCESSING /\ tasks'[t].status = TASK_STATUS_PROCESSING)
            => tasks'[t].progress >= tasks[t].progress
     /\ \A r \in DOMAIN runs :
          (runs[r].meta # None /\ runs'[r].meta # None) => runs'[r].meta[1] >= runs[r].meta[1]]_vars

\* C26, as the spec puts it: every segment lasts exactly the target
\* (clip_min_duration + clip_max_duration) / 2, whatever its source, and the
\* window of a video satisfies 0 <= start < end <= source duration.
C26_SegmentHasTargetDuration ==
  result # None =>
    LET seg == ClipDuration(args[1].clip_min_duration, args[1].clip_max_duration)
        clip == result[1].value
    IN /\ clip.duration = seg
       /\ clip.kind = "window" =>
            (0 <= clip.start /\ clip.start < clip.end /\ clip.end <= args[1].duration)

\* C26, amended: a segment lasts the target when it comes from an image, a
\* looped video or a video at least one second longer than the target; a
\* video less than a second longer is windowed from (i * seg) mod 1 s and
\* lasts min(seg, source duration - start); the window always satisfies
\* 0 <= start < end <= source duration.
C26_SegmentWithinTarget ==
  result # None =>
    LET seg == ClipDuration(args[1].clip_min_duration, args[1].clip_max_duration)
        clip == result[1].value
    IN /\ clip.duration > 0
       /\ clip.duration <= seg
       /\ clip.kind = "window" =>
            /\ 0 <= clip.start /\ clip.start < clip.end /\ clip.end <= args[1].duration
            /\ clip.duration = Min(seg, args[1].duration - clip.start)
            /\ args[1].duration - seg >= OneSecond => clip.duration = seg
            /\ args[1].duration - seg < OneSecond => clip.start = (args[1].i * seg) % OneSecond
       /\ clip.kind # "window" => clip.duration = seg

\* C26 witness: the second segment of 6.5 s taken from a video of 6.95 s
\* starts at 0.5 s and lasts 6.45 s
C26_Witness ==
  /\ result # None
  /\ args[1].source = "video"
  /\ args[1].duration = 139
  /\ args[1].i = 1
  /\ args[1].clip_min_duration = 30
  /\ args[1].clip_max_duration = 100
  /\ result[1].value = [kind |-> "window", start |-> 10, end |-> 139, duration |-> 129]

\* C27: in every reachable state of a task row, completed implies progress
\* 100 with an output path and an output duration, failed implies progress 0
\* with an error message, and pending or processing implies a progress of
\* 0..100 with no output path.
C27_RowMatchesStatus ==
  \A t \in DOMAIN tasks :
    /\ tasks[t].status = TASK_STATUS_COMPLETED =>
         /\ tasks[t].progress = 100
         /\ tasks[t].output_video_url # None
         /\ tasks[t].output_duration # None
    /\ tasks[t].status = TASK_STATUS_FAILED =>
         /\ tasks[t].progress = 0
         /\ tasks[t].error_message # None
    /\ tasks[t].status \in {TASK_STATUS_PENDING, TASK_STATUS_PROCESSING} =>
         /\ tasks[t].progress \in 0..100
         /\ tasks[t].output_video_url = None

\* C28: whenever apply_transitions_to_clips returns a timeline built with
\* transitions, every fold of it, of the timeline A composed so far with the
\* next segment B, uses an overlap strictly smaller than A's duration, starts
\* B at a strictly positive offset, and yields a timeline of positive duration
\* that is not shorter than A.
C28_FoldsKeepTimeline ==
  (/\ args # None
   /\ args[1].via = "function"
   /\ result # None
   /\ ~result[1].raised
   /\ result[1].value.kind = "transitions")
  => \A k \in 2..Len(args[1].clips) :
       LET type == args[1].transition_type
           d == args[1].duration * TicksPerTenth
           A == TransitionsFold(args[1].clips, k - 1, type, d)
           B == args[1].clips[k]
       IN /\ Overlap(A, d) < A
          /\ ClipStart(A, type, d) > 0
          /\ apply_transition(A, B, type, d) > 0
          /\ apply_transition(A, B, type, d) >= A

\* C29: create_video_from_config always obtains a canvas; when
\* calculate_video_size rejects the resolution or the layout, the canvas is the
\* entry of the legacy table for the resolution (for 1080p when the table does
\* not have it), portrait (height > width) when the layout is 9:16, 3:4 or the
\* legacy value portrait, and landscape otherwise.
C29_FallbackKeepsOrientation ==
  (/\ args # None
   /\ args[1].via = "render"
   /\ result # None)
  => /\ ~result[1].raised
     /\ LET v == result[1].value
        IN calculate_video_size(v.resolution, v.layout)[1].raised
           => /\ v.size \in {get_video_size(IF v.resolution \in {"720p", "1080p", "4k"}
                                              THEN v.resolution ELSE "1080p", l) :
                                 l \in {"portrait", "landscape"}}
              /\ IF v.layout \in {"9:16", "3:4", "portrait"}
                 THEN v.size[2] > v.size[1]
                 ELSE v.size[1] > v.size[2]

\* C30: the parameters create_video_from_config uses after its normalisation
\* are valid whatever the configuration holds: fit mode, transition type and
\* colour filter are known names, effect type is empty or a known effect, every
\* number is inside its range, and no validation they are handed to raises.
C30_NormalisedAlwaysValid ==
  (args # None /\ args[1].via = "normalise" /\ result # None)
  => /\ ~result[1].raised
     /\ LET p == result[1].value.used
        IN /\ p.fit_mode \in FIT_MODES
           /\ p.transition_type \in TRANSITIONS
           /\ p.transition_duration \in TRANSITION_DURATION_MIN..TRANSITION_DURATION_MAX
           /\ ~TruthyStr(p.effect_type) \/ p.effect_type[1] \in EFFECT_TYPES
           /\ p.color_filter \in COLOR_FILTERS
           /\ p.brightness \in BRIGHTNESS_MIN..BRIGHTNESS_MAX
           /\ p.contrast \in CONTRAST_MIN..CONTRAST_MAX
           /\ p.saturation \in SATURATION_MIN..SATURATION_MAX
           /\ p.bgm_volume \in BGM_VOLUME_MIN..BGM_VOLUME_MAX
           /\ p.bgm_fade_in \in BGM_FADE_IN_MIN..BGM_FADE_IN_MAX
           /\ p.bgm_fade_out \in BGM_FADE_OUT_MIN..BGM_FADE_OUT_MAX
     /\ result[1].value.raising = {}

\* a configuration whose names are unknown and whose numbers are out of range
\* has been normalised
C30_Witness ==
  /\ args # None
  /\ args[1].via = "normalise"
  /\ result # None
  /\ args[1].fit_mode = Some("spin")
  /\ args[1].transition_type = Some("spin")
  /\ args[1].transition_duration = Some(21)
  /\ args[1].effect_type = Some(Some("spin"))
  /\ args[1].color_filter = Some("spin")
  /\ args[1].brightness = Some(21)
  /\ args[1].contrast = Some(30)
  /\ args[1].saturation = Some(0 - 1)
  /\ args[1].bgm_volume = Some(11)
  /\ args[1].bgm_fade_in = Some(51)
  /\ args[1].bgm_fade_out = Some(0 - 10)
  /\ result[1].value.used.brightness = BRIGHTNESS_MAX
  /\ result[1].value.used.transition_duration = TRANSITION_DURATION_DEFAULT


====
